---- MODULE Spec2Model ----
(***************************************************************************)
(* Model of the telemetry parsing and analytics engine of                  *)
(* Starlink-RUTOS-Failover/AzureLogging: the monolithic NetworkAnalyzer    *)
(* (analyze-network-performance.py) and the modular LogParser              *)
(* (analysis/log_parser.py).                                               *)
(*                                                                         *)
(* Conventions.                                                            *)
(*  - A CSV line is the list of its comma-separated parts; a part is a     *)
(*    record [k, v, s]: k = "blank" (empty text), "num" (a decimal         *)
(*    literal of value v), "iso"/"isoZ" (an ISO-8601 timestamp without /   *)
(*    with a trailing Z, v seconds), "txt" (any other text s).             *)
(*  - float values are fixed-point integers: latency in 1/10 ms,           *)
(*    throughput in bps, ping_drop_rate and obstruction_fraction in        *)
(*    1/1000, speed in 1/10 km/h, latitude and longitude in degrees.       *)
(*  - A datetime is [secs, aware]: aware = TRUE for an offset-aware value  *)
(*    (parsed from "...Z" / "+00:00"), FALSE for a naive one.  All blobs   *)
(*    lie in one calendar year, so secs counts from the start of it.       *)
(*  - Python None is <<>>, a present optional value x is <<x>>.            *)
(*  - A dict is a function from its keys; d.update(e) is e @@ d.           *)
(***************************************************************************)
EXTENDS Integers, Sequences, FiniteSets, TLC

VARIABLES
    system_logs,          \* NetworkAnalyzer.system_logs
    performance_data,     \* NetworkAnalyzer.performance_data
    failover_events,      \* NetworkAnalyzer.failover_events
    reboot_events,        \* NetworkAnalyzer.reboot_events
    threshold_violations, \* NetworkAnalyzer.threshold_violations
    pc,                   \* position of the run: "ingest", then the analysis that ran
    csv_content,          \* the content handed to the last _parse_performance_data call
    perf_mark,            \* len(performance_data) when that call began
    viol_mark,            \* len(threshold_violations) when that call began
    lines_read,           \* number of log lines handed to _parse_system_logs so far
    rows_read,            \* number of CSV lines handed to _parse_performance_data so far
    event_correlation,    \* what correlate_events_and_performance returned or raised
    recommendations,      \* what generate_threshold_recommendations returned
    failover_analysis,    \* what analyze_failover_patterns returned
    performance_analysis, \* what analyze_performance_trends returned
    system_container,     \* list_blobs() of "system-logs": the blobs, as listed
    performance_container, \* list_blobs() of "starlink-performance"
    parsed_entries,       \* what LogParser.parse_system_logs returned last
    downloader_system_logs,      \* analysis.DataDownloader.system_logs
    downloader_performance_data, \* analysis.DataDownloader.performance_data
    run_result            \* what analysis.NetworkAnalyzer.run_analysis returned or raised

\* the values the analysis functions returned
results == <<event_correlation, recommendations, failover_analysis, performance_analysis>>

\* the storage account, which the program only reads
storage == <<system_container, performance_container>>

\* the state of the modular pipeline (analysis/network_analyzer.py)
modular == <<downloader_system_logs, downloader_performance_data, run_result>>

vars == <<system_logs, performance_data, failover_events, reboot_events,
          threshold_violations, pc, csv_content, perf_mark, viol_mark, lines_read,
          rows_read, results, storage, parsed_entries, modular>>

(***************************************************************************)
(* Bounds of the model.                                                    *)
(***************************************************************************)
\* total number of CSV lines a run feeds to _parse_performance_data
MaxRows == 2
\* widest CSV line of the input universe (the schema's widest is 26)
MaxCols == 27
\* total number of log lines a run feeds to _parse_system_logs
MaxLogLines == 3
\* number of lines of the log blob of the classification specification
MaxBlobLines == 1
\* number of blobs a container lists
MaxBlobs == 2
\* number of rows of the blob of the mobility specification
MaxSamples == 12
\* number of rows of the blob of the statistics specification
MaxStatRows == 100
\* the day of the year on which the run takes place
LogDay == 195

(***************************************************************************)
(* Generic helpers.                                                        *)
(***************************************************************************)
None == <<>>
Some(x) == <<x>>

Abs(n) == IF n < 0 THEN -n ELSE n

\* the value of a result variable before its function was called
NotRun == [message |-> "(not run)"]

RECURSIVE SeqsUpTo(_, _)
\* all sequences over S of length 1..n
SeqsUpTo(S, n) ==
    IF n = 0 THEN {}
    ELSE LET shorter == SeqsUpTo(S, n - 1) IN
         {<<x>> : x \in S} \cup shorter \cup {Append(s, x) : s \in shorter, x \in S}

(***************************************************************************)
(* CSV parts and the conversions applied to them.                          *)
(***************************************************************************)
Blank == [k |-> "blank", v |-> 0, s |-> ""]
Num(n) == [k |-> "num", v |-> n, s |-> ""]
Txt(t) == [k |-> "txt", v |-> 0, s |-> t]
Iso(t) == [k |-> "iso", v |-> t, s |-> ""]
IsoZ(t) == [k |-> "isoZ", v |-> t, s |-> ""]

\* parts[i] with Python's zero-based index
At(parts, i) == parts[i + 1]

\* truthiness of a str: non-empty
Truthy(p) == p.k # "blank"

\* float(p) / int(p) raise ValueError unless p is a numeric literal
FloatRaises(p) == p.k # "num"

\* datetime.fromisoformat(p.replace("Z", "+00:00")) raises ValueError unless p is ISO text
FromIsoRaises(p) == p.k \notin {"iso", "isoZ"}

\* the datetime fromisoformat returns: aware exactly when the text carried the Z suffix
FromIso(p) == [secs |-> p.v, aware |-> (p.k = "isoZ")]

\* str.lower() on the words the boolean columns carry
LowerWord(s) == IF s \in {"true", "True", "TRUE"} THEN "true"
                ELSE IF s \in {"false", "False", "FALSE"} THEN "false"
                ELSE s

\* the text of a part, as the str the parser stores
TextOf(p) == IF p.k = "txt" THEN p.s
             ELSE IF p.k = "blank" THEN ""
             ELSE ToString(p.v)

\* float(parts[i]) if parts[i] else 0
FloatOrZero(p) == IF Truthy(p) THEN p.v ELSE 0

\* float(parts[i]) if len(parts) > i and parts[i] [and parts[i] != ""] else None
FloatOrNone(parts, i) ==
    IF Len(parts) > i /\ Truthy(At(parts, i)) THEN Some(At(parts, i).v) ELSE None

\* parts[i].lower() == "true" if len(parts) > i and parts[i] else False
BoolOrFalse(parts, i) ==
    IF Len(parts) > i /\ Truthy(At(parts, i))
    THEN LowerWord(TextOf(At(parts, i))) = "true"
    ELSE FALSE

(***************************************************************************)
(* The body of the per-line try block of _parse_performance_data:          *)
(* RowRaises is the exception building the entry raises ("none" if none),  *)
(* in the order the dict displays evaluate; RowEntry is the entry built.   *)
(***************************************************************************)
MandatoryRaises(parts) ==
    \/ FromIsoRaises(At(parts, 0))
    \/ \E i \in 1..7 : Truthy(At(parts, i)) /\ FloatRaises(At(parts, i))

DiagnosticRaises(parts) ==
    /\ Len(parts) > 8
    /\ Len(parts) > 9 /\ Truthy(At(parts, 9)) /\ FloatRaises(At(parts, 9))

\* parts[19] is read without a length test: a 19-column line raises IndexError
GpsIndexError(parts) ==
    /\ Len(parts) > 18
    /\ ~ (Truthy(At(parts, 18)) /\ FloatRaises(At(parts, 18)))
    /\ Len(parts) <= 19

GpsValueError(parts) ==
    /\ Len(parts) > 18
    /\ \/ Truthy(At(parts, 18)) /\ FloatRaises(At(parts, 18))
       \/ Len(parts) > 19 /\
            \E i \in {19, 20, 21, 22, 24, 25} :
                Len(parts) > i /\ Truthy(At(parts, i)) /\ FloatRaises(At(parts, i))

RowRaises(parts) ==
    IF MandatoryRaises(parts) \/ DiagnosticRaises(parts) THEN "ValueError"
    ELSE IF GpsIndexError(parts) THEN "IndexError"
    ELSE IF GpsValueError(parts) THEN "ValueError"
    ELSE "none"

MandatoryFields(parts) ==
    [timestamp |-> FromIso(At(parts, 0)),
     uptime_s |-> FloatOrZero(At(parts, 1)),
     downlink_throughput_bps |-> FloatOrZero(At(parts, 2)),
     uplink_throughput_bps |-> FloatOrZero(At(parts, 3)),
     ping_drop_rate |-> FloatOrZero(At(parts, 4)),
     ping_latency_ms |-> FloatOrZero(At(parts, 5)),
     obstruction_duration_s |-> FloatOrZero(At(parts, 6)),
     obstruction_fraction |-> FloatOrZero(At(parts, 7))]

DiagnosticFields(parts) ==
    [currently_obstructed |-> BoolOrFalse(parts, 8),
     snr |-> IF Len(parts) > 9 /\ Truthy(At(parts, 9)) THEN At(parts, 9).v ELSE 0,
     alerts_thermal_throttle |-> BoolOrFalse(parts, 10),
     alerts_thermal_shutdown |-> BoolOrFalse(parts, 11),
     dishy_state |-> IF Len(parts) > 13 THEN TextOf(At(parts, 13)) ELSE "",
     mobility_class |-> IF Len(parts) > 14 THEN TextOf(At(parts, 14)) ELSE ""]

GpsFields(parts) ==
    [latitude |-> FloatOrNone(parts, 18),
     longitude |-> FloatOrNone(parts, 19),
     altitude_m |-> FloatOrNone(parts, 20),
     speed_kmh |-> FloatOrNone(parts, 21),
     heading_deg |-> FloatOrNone(parts, 22),
     gps_source |-> IF Len(parts) > 23 THEN TextOf(At(parts, 23)) ELSE "none",
     gps_satellites |-> IF Len(parts) > 24 /\ Truthy(At(parts, 24))
                        THEN At(parts, 24).v ELSE 0,
     gps_accuracy_m |-> FloatOrNone(parts, 25)]

RowEntry(parts) ==
    LET base == MandatoryFields(parts)
        diag == IF Len(parts) > 8 THEN DiagnosticFields(parts) @@ base ELSE base
    IN  IF Len(parts) > 18 THEN GpsFields(parts) @@ diag ELSE diag

(***************************************************************************)
(* _check_performance_thresholds.                                          *)
(***************************************************************************)
\* entry["ping_latency_ms"] > 600, in ms
LatencyLimit == 600
\* entry["ping_drop_rate"] > 0.05, in 1/1000
DropRateLimit == 50
\* entry["downlink_throughput_bps"] < 10_000_000
DownlinkLimit == 10000000
\* entry["obstruction_fraction"] > 0.02, in 1/1000
ObstructionLimit == 20

\* a description f"<text>: <value:.1f><unit>": shown is the printed number in tenths
Description(text, shown) == [text |-> text, shown |-> shown]

\* f"{bps/1_000_000:.1f}": the value in tenths of a Mbps, rounded to nearest
TenthsOfMbps(bps) == (bps + 50000) \div 100000

\* mutant: the latency comparison made inclusive
Violations_LatencyInclusive(entry) ==
    (IF entry.ping_latency_ms >= LatencyLimit * 10
        THEN <<Description("High latency", entry.ping_latency_ms)>> ELSE <<>>)
    \o (IF entry.ping_drop_rate > DropRateLimit
        THEN <<Description("High packet loss", entry.ping_drop_rate)>> ELSE <<>>)
    \o (IF entry.downlink_throughput_bps < DownlinkLimit
        THEN <<Description("Low downlink", TenthsOfMbps(entry.downlink_throughput_bps))>>
        ELSE <<>>)
    \o (IF entry.obstruction_fraction > ObstructionLimit
        THEN <<Description("High obstruction", entry.obstruction_fraction)>> ELSE <<>>)

\* the local list `violations` the function builds for one entry
Violations(entry) ==
    (IF entry.ping_latency_ms > LatencyLimit * 10
        THEN <<Description("High latency", entry.ping_latency_ms)>> ELSE <<>>)
    \o (IF entry.ping_drop_rate > DropRateLimit
        THEN <<Description("High packet loss", entry.ping_drop_rate)>> ELSE <<>>)
    \o (IF entry.downlink_throughput_bps < DownlinkLimit
        THEN <<Description("Low downlink", TenthsOfMbps(entry.downlink_throughput_bps))>>
        ELSE <<>>)
    \o (IF entry.obstruction_fraction > ObstructionLimit
        THEN <<Description("High obstruction", entry.obstruction_fraction)>> ELSE <<>>)

\* mutant: the entry recorded without the `if violations` test
_check_performance_thresholds_Always(entry, violations_list) ==
    Append(violations_list,
           [timestamp |-> entry.timestamp,
            violations |-> Violations(entry),
            metrics |-> entry])

\* a variant that keeps only the latest record
_check_performance_thresholds_Latest(entry, violations_list) ==
    IF Violations(entry) # <<>>
    THEN <<[timestamp |-> entry.timestamp,
            violations |-> Violations(entry),
            metrics |-> entry]>>
    ELSE violations_list

\* threshold_violations after _check_performance_thresholds(entry)
_check_performance_thresholds(entry, violations_list) ==
    IF Violations(entry) # <<>>
    THEN Append(violations_list,
                [timestamp |-> entry.timestamp,
                 violations |-> Violations(entry),
                 metrics |-> entry])
    ELSE violations_list

(***************************************************************************)
(* _parse_performance_data.                                                *)
(***************************************************************************)
\* not line.strip()
IsBlankLine(line) == \A i \in 1..Len(line) : line[i].k = "blank"

\* lines[0].startswith("timestamp")
IsHeader(line) == Len(line) > 0 /\ line[1].k = "txt" /\ line[1].s = "timestamp"

RECURSIVE DropLeadingBlank(_)
DropLeadingBlank(lines) ==
    IF lines # <<>> /\ IsBlankLine(Head(lines)) THEN DropLeadingBlank(Tail(lines))
    ELSE lines

RECURSIVE DropTrailingBlank(_)
DropTrailingBlank(lines) ==
    IF lines # <<>> /\ IsBlankLine(lines[Len(lines)])
    THEN DropTrailingBlank(SubSeq(lines, 1, Len(lines) - 1))
    ELSE lines

\* content.strip().split("\n"), then the header skipped when lines[0] is one
DataLines(content) ==
    LET lines == DropTrailingBlank(DropLeadingBlank(content))
    IN  IF lines # <<>> /\ IsHeader(Head(lines)) THEN Tail(lines) ELSE lines

RECURSIVE ParseLines(_, _, _)
\* the for loop over lines: [pd, tv] are the two accumulators after it
ParseLines(lines, pd, tv) ==
    IF lines = <<>> THEN [pd |-> pd, tv |-> tv]
    ELSE IF Len(lines) = 1
    THEN LET parts == Head(lines) IN
         IF IsBlankLine(parts) THEN [pd |-> pd, tv |-> tv]
         ELSE IF Len(parts) >= 8 /\ RowRaises(parts) = "none"
         THEN [pd |-> Append(pd, RowEntry(parts)),
               tv |-> _check_performance_thresholds(RowEntry(parts), tv)]
         ELSE [pd |-> pd, tv |-> tv]
    \* a line only appends to the two lists, whatever they hold: the additions of the
    \* first half of the lines, then those of the second half
    ELSE LET half == Len(lines) \div 2
             first == ParseLines(SubSeq(lines, 1, half), <<>>, <<>>)
             second == ParseLines(SubSeq(lines, half + 1, Len(lines)), <<>>, <<>>)
         IN  [pd |-> pd \o first.pd \o second.pd, tv |-> tv \o first.tv \o second.tv]

_parse_performance_data(content) ==
    /\ pc = "ingest"
    /\ rows_read + Len(content) <= MaxRows
    /\ LET r == ParseLines(DataLines(content), performance_data, threshold_violations)
       IN  /\ performance_data' = r.pd
           /\ threshold_violations' = r.tv
    /\ csv_content' = content
    /\ perf_mark' = Len(performance_data)
    /\ viol_mark' = Len(threshold_violations)
    /\ rows_read' = rows_read + Len(content)
    /\ UNCHANGED <<system_logs, failover_events, reboot_events, pc, lines_read, results,
                   storage, parsed_entries, modular>>

(***************************************************************************)
(* Text.  A message or a process name is the tuple of its characters, so   *)
(* that `keyword in message` is a substring search.                        *)
(***************************************************************************)
LowerChar(c) ==
    CASE c = "A" -> "a"
      [] c = "B" -> "b"
      [] c = "C" -> "c"
      [] c = "D" -> "d"
      [] c = "E" -> "e"
      [] c = "F" -> "f"
      [] c = "G" -> "g"
      [] c = "H" -> "h"
      [] c = "I" -> "i"
      [] c = "J" -> "j"
      [] c = "K" -> "k"
      [] c = "L" -> "l"
      [] c = "M" -> "m"
      [] c = "N" -> "n"
      [] c = "O" -> "o"
      [] c = "P" -> "p"
      [] c = "Q" -> "q"
      [] c = "R" -> "r"
      [] c = "S" -> "s"
      [] c = "T" -> "t"
      [] c = "U" -> "u"
      [] c = "V" -> "v"
      [] c = "W" -> "w"
      [] c = "X" -> "x"
      [] c = "Y" -> "y"
      [] c = "Z" -> "z"
      [] OTHER -> c

UpperChar(c) ==
    CASE c = "a" -> "A"
      [] c = "b" -> "B"
      [] c = "c" -> "C"
      [] c = "d" -> "D"
      [] c = "e" -> "E"
      [] c = "f" -> "F"
      [] c = "g" -> "G"
      [] c = "h" -> "H"
      [] c = "i" -> "I"
      [] c = "j" -> "J"
      [] c = "k" -> "K"
      [] c = "l" -> "L"
      [] c = "m" -> "M"
      [] c = "n" -> "N"
      [] c = "o" -> "O"
      [] c = "p" -> "P"
      [] c = "q" -> "Q"
      [] c = "r" -> "R"
      [] c = "s" -> "S"
      [] c = "t" -> "T"
      [] c = "u" -> "U"
      [] c = "v" -> "V"
      [] c = "w" -> "W"
      [] c = "x" -> "X"
      [] c = "y" -> "Y"
      [] c = "z" -> "Z"
      [] OTHER -> c

\* s.lower(), s.upper()
Lower(s) == [i \in DOMAIN s |-> LowerChar(s[i])]
Upper(s) == [i \in DOMAIN s |-> UpperChar(s[i])]

\* kw in s
In(kw, s) == \E i \in 0..(Len(s) - Len(kw)) : SubSeq(s, i + 1, i + Len(kw)) = kw

\* any(keyword in s for keyword in keywords)
AnyIn(keywords, s) == \E kw \in keywords : In(kw, s)

(***************************************************************************)
(* A log line is [fmt, stamp, hostname, process, pid, message]:            *)
(* fmt = "syslog" when the line matches the syslog pattern of both         *)
(* parsers, "blank" for an empty line, "other" for any other text;         *)
(* stamp = [valid, secs] is the "Mon D HH:MM:SS" text: valid when          *)
(* strptime accepts it with the blob's year, secs its offset in the year;  *)
(* pid is the text between the brackets, <<>> without brackets.            *)
(* A log_date is the day of the year of the blob.                          *)
(***************************************************************************)
SecondsPerDay == 86400

\* NetworkAnalyzer._parse_log_line: Some(entry), or None
_parse_log_line(line, log_date) ==
    IF line.fmt = "syslog" /\ line.stamp.valid
    THEN Some([timestamp |-> [secs |-> line.stamp.secs, aware |-> FALSE],
               hostname |-> line.hostname,
               \* group 3 is [^:]+ : the brackets and the pid belong to it
               process |-> IF line.pid = <<>> THEN line.process
                           ELSE line.process \o <<"[">> \o line.pid \o <<"]">>,
               message |-> line.message,
               raw_line |-> line])
    ELSE None

(***************************************************************************)
(* _identify_events.                                                       *)
(***************************************************************************)
\* _identify_events: failover_keywords
failover_keywords ==
    {<<"f", "a", "i", "l", "o", "v", "e", "r">>,
     <<"s", "w", "i", "t", "c", "h", "i", "n", "g", " ", "t", "o", " ", "b", "a", "c", "k", "u", "p">>,
     <<"s", "t", "a", "r", "l", "i", "n", "k", " ", "d", "o", "w", "n">>,
     <<"p", "r", "i", "m", "a", "r", "y", " ", "w", "a", "n", " ", "d", "o", "w", "n">>,
     <<"b", "a", "c", "k", "u", "p", " ", "w", "a", "n", " ", "u", "p">>,
     <<"c", "o", "n", "n", "e", "c", "t", "i", "o", "n", " ", "r", "e", "s", "t", "o", "r", "e", "d">>,
     <<"w", "a", "n", " ", "f", "a", "i", "l", "o", "v", "e", "r">>}

\* _identify_events: reboot_keywords
reboot_keywords ==
    {<<"s", "y", "s", "t", "e", "m", " ", "s", "t", "a", "r", "t", "u", "p">>,
     <<"k", "e", "r", "n", "e", "l", ":">>,
     <<"i", "n", "i", "t", ":">>,
     <<"b", "o", "o", "t", "i", "n", "g">>,
     <<"s", "y", "s", "t", "e", "m", " ", "h", "a", "l", "t">>,
     <<"r", "e", "s", "t", "a", "r", "t">>,
     <<"r", "e", "b", "o", "o", "t">>,
     <<"s", "h", "u", "t", "d", "o", "w", "n">>}


Event(type, log_entry) ==
    [timestamp |-> log_entry.timestamp,
     type |-> type,
     message |-> log_entry.message,
     process |-> log_entry.process]

\* a variant that appends one event for every keyword the message contains
FailoverAfter_PerKeyword(events, log_entry) ==
    LET hits == Cardinality({kw \in failover_keywords : In(kw, Lower(log_entry.message))})
    IN  events \o [i \in 1..hits |-> Event("failover", log_entry)]

\* failover_events after _identify_events(log_entry)
FailoverAfter(events, log_entry) ==
    IF AnyIn(failover_keywords, Lower(log_entry.message))
    THEN Append(events, Event("failover", log_entry))
    ELSE events

\* reboot_events after _identify_events(log_entry)
RebootAfter(events, log_entry) ==
    IF AnyIn(reboot_keywords, Lower(log_entry.message))
    THEN Append(events, Event("reboot", log_entry))
    ELSE events

(***************************************************************************)
(* _parse_system_logs.                                                     *)
(***************************************************************************)
RECURSIVE ParseLogLines(_, _, _, _, _)
\* the for loop over lines: the three accumulators after it
ParseLogLines(lines, log_date, logs, failovers, reboots) ==
    IF lines = <<>> THEN [logs |-> logs, failovers |-> failovers, reboots |-> reboots]
    ELSE LET log_entry == _parse_log_line(Head(lines), log_date) IN
         IF Head(lines).fmt = "blank" \/ log_entry = None
         THEN ParseLogLines(Tail(lines), log_date, logs, failovers, reboots)
         ELSE ParseLogLines(Tail(lines), log_date,
                            Append(logs, log_entry[1]),
                            FailoverAfter(failovers, log_entry[1]),
                            RebootAfter(reboots, log_entry[1]))

_parse_system_logs(content, log_date) ==
    /\ pc = "ingest"
    /\ lines_read + Len(content) <= MaxLogLines
    /\ LET r == ParseLogLines(content, log_date, system_logs, failover_events,
                              reboot_events)
       IN  /\ system_logs' = r.logs
           /\ failover_events' = r.failovers
           /\ reboot_events' = r.reboots
    /\ lines_read' = lines_read + Len(content)
    /\ UNCHANGED <<performance_data, threshold_violations, pc, csv_content, perf_mark,
                   viol_mark, rows_read, results, storage, parsed_entries, modular>>

(***************************************************************************)
(* analysis/log_parser.py: LogParser.                                      *)
(***************************************************************************)
\* _classify_event: the FAILOVER test
ClassifierFailover ==
    {<<"f", "a", "i", "l", "o", "v", "e", "r">>,
     <<"s", "w", "i", "t", "c", "h", "i", "n", "g">>,
     <<"r", "o", "u", "t", "e", " ", "c", "h", "a", "n", "g", "e">>,
     <<"m", "e", "t", "r", "i", "c">>}

\* _classify_event: the REBOOT test
ClassifierReboot ==
    {<<"r", "e", "b", "o", "o", "t">>,
     <<"r", "e", "s", "t", "a", "r", "t">>,
     <<"s", "t", "a", "r", "t", "u", "p">>,
     <<"s", "h", "u", "t", "d", "o", "w", "n">>}

\* _classify_event: the NETWORK test
ClassifierNetwork ==
    {<<"n", "e", "t", "w", "o", "r", "k">>,
     <<"i", "n", "t", "e", "r", "f", "a", "c", "e">>,
     <<"c", "o", "n", "n", "e", "c", "t", "i", "o", "n">>,
     <<"l", "i", "n", "k">>}

\* _classify_event: the GPS test
ClassifierGps ==
    {<<"g", "p", "s">>,
     <<"l", "o", "c", "a", "t", "i", "o", "n">>,
     <<"c", "o", "o", "r", "d", "i", "n", "a", "t", "e">>}

\* _classify_event: the STARLINK test
ClassifierStarlink ==
    {<<"s", "t", "a", "r", "l", "i", "n", "k">>,
     <<"d", "i", "s", "h", "y">>,
     <<"s", "a", "t", "e", "l", "l", "i", "t", "e">>}

\* _classify_event: the SYSTEM test, on the process name
ClassifierSystem ==
    {<<"k", "e", "r", "n", "e", "l">>,
     <<"s", "y", "s", "t", "e", "m", "d">>,
     <<"c", "r", "o", "n">>}

\* a variant that tests the levels in the opposite order
_extract_log_level_Reversed(message) ==
    LET message_upper == Upper(message) IN
    IF AnyIn({<<"D", "E", "B", "U", "G">>}, message_upper) THEN "DEBUG"
    ELSE IF AnyIn({<<"I", "N", "F", "O">>,
                   <<"I", "N", "F", "O", "R", "M", "A", "T", "I", "O", "N">>},
                  message_upper) THEN "INFO"
    ELSE IF AnyIn({<<"W", "A", "R", "N">>, <<"W", "A", "R", "N", "I", "N", "G">>},
                  message_upper) THEN "WARNING"
    ELSE IF AnyIn({<<"E", "R", "R", "O", "R">>, <<"E", "R", "R">>}, message_upper) THEN "ERROR"
    ELSE "UNKNOWN"

\* LogParser._extract_log_level
_extract_log_level(message) ==
    LET message_upper == Upper(message) IN
    IF AnyIn({<<"E", "R", "R", "O", "R">>, <<"E", "R", "R">>}, message_upper) THEN "ERROR"
    ELSE IF AnyIn({<<"W", "A", "R", "N">>, <<"W", "A", "R", "N", "I", "N", "G">>},
                  message_upper) THEN "WARNING"
    ELSE IF AnyIn({<<"I", "N", "F", "O">>,
                   <<"I", "N", "F", "O", "R", "M", "A", "T", "I", "O", "N">>},
                  message_upper) THEN "INFO"
    ELSE IF AnyIn({<<"D", "E", "B", "U", "G">>}, message_upper) THEN "DEBUG"
    ELSE "UNKNOWN"

\* LogParser._classify_event
_classify_event(process, message) ==
    LET message_lower == Lower(message)
        process_lower == Lower(process)
    IN  IF AnyIn(ClassifierFailover, message_lower) THEN "FAILOVER"
        ELSE IF AnyIn(ClassifierReboot, message_lower) THEN "REBOOT"
        ELSE IF AnyIn(ClassifierNetwork, message_lower) THEN "NETWORK"
        ELSE IF AnyIn(ClassifierGps, message_lower) THEN "GPS"
        ELSE IF AnyIn(ClassifierStarlink, message_lower) THEN "STARLINK"
        ELSE IF AnyIn(ClassifierSystem, process_lower) THEN "SYSTEM"
        ELSE "OTHER"

DigitValue(c) ==
    CASE c = "0" -> 0 [] c = "1" -> 1 [] c = "2" -> 2 [] c = "3" -> 3 [] c = "4" -> 4
      [] c = "5" -> 5 [] c = "6" -> 6 [] c = "7" -> 7 [] c = "8" -> 8 [] c = "9" -> 9

RECURSIVE IntOf(_)
\* int(pid) of a digit string
IntOf(digits) ==
    IF digits = <<>> THEN 0
    ELSE 10 * IntOf(SubSeq(digits, 1, Len(digits) - 1)) + DigitValue(digits[Len(digits)])

\* LogParser._parse_log_line: Some(entry), or None
LogParser_parse_log_line(line, log_date) ==
    IF line.fmt # "syslog" THEN None
    ELSE Some([timestamp |->
                  IF line.stamp.valid
                  THEN [secs |-> line.stamp.secs, aware |-> FALSE]
                  \* datetime.combine(log_date, datetime.min.time())
                  ELSE [secs |-> log_date * SecondsPerDay, aware |-> FALSE],
               hostname |-> line.hostname,
               process |-> line.process,
               pid |-> IF line.pid # <<>> THEN Some(IntOf(line.pid)) ELSE None,
               message |-> line.message,
               log_level |-> _extract_log_level(line.message),
               event_type |-> _classify_event(line.process, line.message)])

RECURSIVE LogParserEntries(_, _)
\* the for loop of LogParser.parse_system_logs
LogParserEntries(lines, log_date) ==
    IF lines = <<>> THEN <<>>
    ELSE LET entry == LogParser_parse_log_line(Head(lines), log_date) IN
         IF Head(lines).fmt = "blank" \/ entry = None
         THEN LogParserEntries(Tail(lines), log_date)
         ELSE <<entry[1]>> \o LogParserEntries(Tail(lines), log_date)

\* LogParser.parse_system_logs
LogParser_parse_system_logs(content, log_date) ==
    /\ parsed_entries = <<>>
    /\ parsed_entries' = LogParserEntries(content, log_date)
    /\ UNCHANGED <<system_logs, performance_data, failover_events, reboot_events,
                   threshold_violations, pc, csv_content, perf_mark, viol_mark,
                   lines_read, rows_read, results, storage, modular>>

(***************************************************************************)
(* generate_threshold_recommendations.  A quotient a / b that Python keeps *)
(* as a float is the pair <<a, b>>.                                        *)
(***************************************************************************)
\* int(x) of the quotient a / b, b > 0: truncation toward zero
Trunc(a, b) == IF a >= 0 THEN a \div b ELSE -((-a) \div b)

\* a variant that sorts in descending order
Sorted_Descending(values) == SortSeq(values, LAMBDA a, b : a > b)

\* sorted(values)
Sorted(values) == SortSeq(values, LAMBDA a, b : a < b)

\* a variant that counts the index from the top of the list
PercentileIndex_FromTop(n, pct) == n - 1 - Trunc(n * pct, 100)

\* int(len(values) * 0.95), int(len(values) * 0.99), int(len(values) * 0.05): the
\* zero-based index, pct being the percentage
PercentileIndex(n, pct) == Trunc(n * pct, 100)

\* a variant that indexes the list as it stands
Percentile_Unsorted(values, pct) == values[PercentileIndex(Len(values), pct) + 1]

\* sorted(values)[int(len(values) * pct / 100)]
Percentile(values, pct) == Sorted(values)[PercentileIndex(Len(values), pct) + 1]

Column(data, key) == [i \in DOMAIN data |-> data[i][key]]

generate_threshold_recommendations_result ==
    IF performance_data = <<>>
    THEN [message |-> "Insufficient data for recommendations"]
    ELSE LET latency_95th == Percentile(Column(performance_data, "ping_latency_ms"), 95)
             latency_99th == Percentile(Column(performance_data, "ping_latency_ms"), 99)
             packet_loss_95th == Percentile(Column(performance_data, "ping_drop_rate"), 95)
             throughput_5th ==
                 Percentile(Column(performance_data, "downlink_throughput_bps"), 5)
         IN  [current_thresholds |->
                 [latency_threshold_ms |-> 600,
                  packet_loss_threshold_pct |-> 5,
                  min_throughput_mbps |-> 10],
              recommended_thresholds |->
                 \* int(x * 1.1), x in 1/10 ms
                 [latency_warning_ms |-> Trunc(latency_95th * 11, 100),
                  latency_critical_ms |-> Trunc(latency_99th * 11, 100),
                  \* round(x * 100 * 1.2, 2) in 1/100 of a percent, x in 1/1000
                  packet_loss_warning_pct |-> packet_loss_95th * 12,
                  \* round(bps / 1_000_000 * 0.8, 1) in tenths of a Mbps
                  min_throughput_mbps |-> (throughput_5th + 62500) \div 125000],
              violation_analysis |->
                 [total_violations |-> Len(threshold_violations),
                  violation_rate_pct |->
                      <<Len(threshold_violations) * 100, Len(performance_data)>>]]

generate_threshold_recommendations ==
    /\ recommendations = NotRun
    /\ recommendations' = generate_threshold_recommendations_result
    /\ pc' = "analysis"
    /\ UNCHANGED <<system_logs, performance_data, failover_events, reboot_events,
                   threshold_violations, csv_content, perf_mark, viol_mark, lines_read,
                   rows_read, event_correlation, failover_analysis, performance_analysis,
                   storage, parsed_entries, modular>>

(***************************************************************************)
(* correlate_events_and_performance.                                       *)
(***************************************************************************)
\* for reboot events: <= 3600
RebootWindow == 3600
\* for failover events: <= 1800
FailoverWindow == 1800

\* p["timestamp"] - event_time raises TypeError between an offset-aware and a naive
\* datetime
SubtractRaises(a, b) == a.aware # b.aware

\* abs((p["timestamp"] - event_time).total_seconds()) <= window
WithinWindow(p, event_time, window) == Abs(p.timestamp.secs - event_time.secs) <= window

\* the list relevant_performance of one event
RelevantPerformance(event_time, window) ==
    SelectSeq(performance_data, LAMBDA p : WithinWindow(p, event_time, window))

RECURSIVE SumOf(_)
SumOf(values) ==
    IF values = <<>> THEN 0
    ELSE IF Len(values) = 1 THEN values[1]
    ELSE SumOf(SubSeq(values, 1, Len(values) \div 2))
         + SumOf(SubSeq(values, (Len(values) \div 2) + 1, Len(values)))

\* the dict appended for an event whose relevant_performance is not empty
Correlation(event_type, event_time, relevant) ==
    [event_type |-> event_type,
     timestamp |-> event_time,
     performance_samples |-> Len(relevant),
     avg_latency_ms |-> <<SumOf(Column(relevant, "ping_latency_ms")), Len(relevant)>>,
     avg_packet_loss_pct |->
         <<SumOf(Column(relevant, "ping_drop_rate")) * 100, Len(relevant)>>]

RECURSIVE CorrelationsOf(_, _, _)
\* one loop over an event list: the correlations it appends
CorrelationsOf(events, event_type, window) ==
    IF events = <<>> THEN <<>>
    ELSE LET relevant == RelevantPerformance(Head(events).timestamp, window)
         IN  (IF relevant # <<>>
              THEN <<Correlation(event_type, Head(events).timestamp, relevant)>>
              ELSE <<>>)
             \o CorrelationsOf(Tail(events), event_type, window)

\* every event is compared with every record, so one mixed pair raises
CorrelateRaises ==
    \E i \in DOMAIN performance_data :
        \/ \E j \in DOMAIN reboot_events :
              SubtractRaises(performance_data[i].timestamp, reboot_events[j].timestamp)
        \/ \E j \in DOMAIN failover_events :
              SubtractRaises(performance_data[i].timestamp, failover_events[j].timestamp)

correlate_events_and_performance_result ==
    IF CorrelateRaises THEN [raised |-> "TypeError"]
    ELSE LET correlations ==
                 CorrelationsOf(reboot_events, "reboot", RebootWindow)
                 \o CorrelationsOf(failover_events, "failover", FailoverWindow)
         IN  [correlations_found |-> Len(correlations), events |-> correlations]

correlate_events_and_performance ==
    /\ event_correlation = NotRun
    /\ event_correlation' = correlate_events_and_performance_result
    /\ pc' = "analysis"
    /\ UNCHANGED <<system_logs, performance_data, failover_events, reboot_events,
                   threshold_violations, csv_content, perf_mark, viol_mark, lines_read,
                   rows_read, recommendations, failover_analysis, performance_analysis,
                   storage, parsed_entries, modular>>

(***************************************************************************)
(* download_data and _download_logs.                                       *)
(***************************************************************************)
\* download_data(days_back: int = 30)
DaysBack == 30

\* start_date.date() <= blob_date <= end_date.date(), the run taking place on day today
InDateRange(blob_date, today) == today - DaysBack <= blob_date /\ blob_date <= today

\* an item of a listing raises when the lazy iterator of list_blobs() fails at its
\* position, or when it is in the date range and its download (get_blob_client,
\* download_blob, readall, decode) fails; a blob outside the range is never downloaded
ItemRaises(item, today) ==
    \/ item.fault = "listing"
    \/ item.fault = "download" /\ InDateRange(item.blob_date, today)

RECURSIVE DownloadSystem(_, _, _)
\* _download_logs(system_container, ..., "system"): the blobs in listed order, up to
\* the first item that raises
DownloadSystem(blobs, today, acc) ==
    IF blobs = <<>> THEN acc @@ [raised |-> FALSE]
    ELSE IF ItemRaises(Head(blobs), today) THEN acc @@ [raised |-> TRUE]
    ELSE DownloadSystem(Tail(blobs), today,
                        IF InDateRange(Head(blobs).blob_date, today)
                        THEN ParseLogLines(Head(blobs).content, Head(blobs).blob_date,
                                           acc.logs, acc.failovers, acc.reboots)
                        ELSE acc)

RECURSIVE DownloadPerformance(_, _, _)
\* _download_logs(performance_container, ..., "performance"): the blobs in listed
\* order, up to the first item that raises
DownloadPerformance(blobs, today, acc) ==
    IF blobs = <<>> THEN acc @@ [raised |-> FALSE]
    ELSE IF ItemRaises(Head(blobs), today) THEN acc @@ [raised |-> TRUE]
    ELSE DownloadPerformance(Tail(blobs), today,
                             IF InDateRange(Head(blobs).blob_date, today)
                             THEN ParseLines(DataLines(Head(blobs).content), acc.pd, acc.tv)
                                  @@ [content |-> Head(blobs).content,
                                      pmark |-> Len(acc.pd), vmark |-> Len(acc.tv)]
                             ELSE acc)

\* a variant of the except blocks that logs the error and does not re-raise it
DownloadOutcome_Swallowed(raised) == "downloaded"

\* both except blocks log and re-raise; main's except block then exits with status 1
\* before generate_report is called
DownloadOutcome(raised) == IF raised THEN "download_failed" ELSE "downloaded"

download_data(today) ==
    /\ pc = "ingest"
    /\ LET sys == DownloadSystem(system_container, today,
                                 [logs |-> system_logs, failovers |-> failover_events,
                                  reboots |-> reboot_events])
           \* the performance container is reached only when the first call returned
           perf == DownloadPerformance(IF sys.raised THEN <<>> ELSE performance_container,
                                       today,
                                       [pd |-> performance_data,
                                        tv |-> threshold_violations,
                                        content |-> csv_content,
                                        pmark |-> perf_mark, vmark |-> viol_mark])
       IN  /\ system_logs' = sys.logs
           /\ failover_events' = sys.failovers
           /\ reboot_events' = sys.reboots
           /\ performance_data' = perf.pd
           /\ threshold_violations' = perf.tv
           /\ csv_content' = perf.content
           /\ perf_mark' = perf.pmark
           /\ viol_mark' = perf.vmark
           /\ pc' = DownloadOutcome(sys.raised \/ perf.raised)
    /\ UNCHANGED <<lines_read, rows_read, results, storage, parsed_entries, modular>>

\* min(...) / max(...) over the timestamps raise TypeError when a naive datetime is
\* compared with an offset-aware one
AnalysisPeriodRaises ==
    \E i, j \in DOMAIN performance_data :
        performance_data[i].timestamp.aware # performance_data[j].timestamp.aware

(***************************************************************************)
(* analyze_failover_patterns.                                              *)
(***************************************************************************)
\* timestamp.date(), as the day of the year
DateOf(t) == t.secs \div SecondsPerDay

\* timestamp.hour
HourOf(t) == (t.secs % SecondsPerDay) \div 3600

\* a count that misses the last value
CountOf_ButLast(values, v) ==
    Cardinality({i \in 1..(Len(values) - 1) : values[i] = v})

\* daily_failovers[date_key] += 1 and Counter(failover_hours): how often v occurs
CountOf(values, v) == Cardinality({i \in DOMAIN values : values[i] = v})

\* Counter(values).most_common(1)[0][0]: the most frequent value, the one met first
\* among equals
MostCommon(values) ==
    LET best == CHOOSE i \in DOMAIN values :
                    /\ \A j \in DOMAIN values :
                          CountOf(values, values[j]) <= CountOf(values, values[i])
                    /\ \A j \in 1..(i - 1) :
                          CountOf(values, values[j]) < CountOf(values, values[i])
    IN  values[best]

analyze_failover_patterns_result ==
    IF failover_events = <<>>
    THEN [failover_count |-> 0, message |-> "No failover events found"]
    ELSE LET dates == [i \in DOMAIN failover_events |-> DateOf(failover_events[i].timestamp)]
             failover_hours ==
                 [i \in DOMAIN failover_events |-> HourOf(failover_events[i].timestamp)]
             days == {dates[i] : i \in DOMAIN dates}
         IN  [failover_count |-> Len(failover_events),
              days_with_failovers |-> Cardinality(days),
              avg_failovers_per_day |-> <<Len(failover_events), Cardinality(days)>>,
              peak_hour |-> MostCommon(failover_hours),
              peak_hour_count |-> CountOf(failover_hours, MostCommon(failover_hours)),
              daily_distribution |-> [d \in days |-> CountOf(dates, d)]]

analyze_failover_patterns ==
    /\ failover_analysis = NotRun
    /\ failover_analysis' = analyze_failover_patterns_result
    /\ pc' = "analysis"
    /\ UNCHANGED <<system_logs, performance_data, failover_events, reboot_events,
                   threshold_violations, csv_content, perf_mark, viol_mark, lines_read,
                   rows_read, event_correlation, recommendations, performance_analysis,
                   storage, parsed_entries, modular>>

(***************************************************************************)
(* analyze_gps_patterns and analyze_mobility_patterns.                     *)
(***************************************************************************)
\* p.get(key) is not None
Has(p, key) == key \in DOMAIN p /\ p[key] # None

\* the values of a column that every record of the list carries
Values(data, key) == [i \in DOMAIN data |-> data[i][key][1]]

SeqMax(values) == CHOOSE x \in {values[i] : i \in DOMAIN values} :
                      \A i \in DOMAIN values : values[i] <= x
SeqMin(values) == CHOOSE x \in {values[i] : i \in DOMAIN values} :
                      \A i \in DOMAIN values : x <= values[i]

\* round(num / den, 2), in 1/100, for num >= 0 and den > 0
Round2(num, den) ==
    LET rest == (num % den) * 100
    IN  (num \div den) * 100 + rest \div den + (IF 2 * (rest % den) >= den THEN 1 ELSE 0)

\* a variant that takes the mean latitude with its sign
_calculate_coverage_area_Signed(df) ==
    IF Len(df) < 3 THEN 0
    ELSE LET lat_range == SeqMax(Values(df, "latitude")) - SeqMin(Values(df, "latitude"))
             lon_range == SeqMax(Values(df, "longitude")) - SeqMin(Values(df, "longitude"))
             lat_km == lat_range * 111
             lon_km == <<lon_range * 111 * SumOf(Values(df, "latitude")), Len(df) * 90>>
         IN  Round2(lat_km * lon_km[1], lon_km[2])

\* _calculate_coverage_area(df), in 1/100 km2
_calculate_coverage_area(df) ==
    IF Len(df) < 3 THEN 0
    ELSE LET lat_range == SeqMax(Values(df, "latitude")) - SeqMin(Values(df, "latitude"))
             lon_range == SeqMax(Values(df, "longitude")) - SeqMin(Values(df, "longitude"))
             lat_km == lat_range * 111
             \* lon_range * 111 * abs(mean) / 90, the mean being sum / len
             lon_km == <<lon_range * 111 * Abs(SumOf(Values(df, "latitude"))),
                         Len(df) * 90>>
         IN  Round2(lat_km * lon_km[1], lon_km[2])

(***************************************************************************)
(* _calculate_distance in fixed point.  Angles stay in degrees (the factor *)
(* of math.radians is folded into the functions); an angle handed to Sin   *)
(* is in half degrees, so that dlat / 2 of whole degrees is exact.  Sines  *)
(* and cosines are in 1/10000, a in 1/100000000, c in 1/100 degree, the    *)
(* distance in metres.                                                     *)
(***************************************************************************)
\* math.sin for 0..180 degrees (Bhaskara's rational approximation)
SinUpTo180(half_degrees) ==
    LET p == half_degrees * (360 - half_degrees)
    IN  (40000 * p) \div (162000 - p)

\* math.sin, an odd function
Sin(half_degrees) ==
    IF half_degrees < 0 THEN 0 - SinUpTo180(0 - half_degrees) ELSE SinUpTo180(half_degrees)

\* math.cos of a latitude in degrees
Cos(degrees) == Sin(180 - 2 * degrees)

RECURSIVE SqrtBetween(_, _, _)
SqrtBetween(x, low, high) ==
    IF low = high THEN low
    ELSE LET mid == (low + high + 1) \div 2
         IN  IF mid * mid <= x THEN SqrtBetween(x, mid, high)
             ELSE SqrtBetween(x, low, mid - 1)

\* math.sqrt of a value in 1/100000000, in 1/10000
Sqrt(x) == SqrtBetween(x, 0, 15000)

RECURSIVE HalfDegreesBelow(_, _, _)
\* the greatest angle of low..high half degrees whose sine is at most x
HalfDegreesBelow(x, low, high) ==
    IF low = high THEN low
    ELSE LET mid == (low + high + 1) \div 2
         IN  IF Sin(mid) <= x THEN HalfDegreesBelow(x, mid, high)
             ELSE HalfDegreesBelow(x, low, mid - 1)

\* math.asin of a value 0..1 in 1/10000, in 1/100 of a half degree: the inverse of Sin,
\* linear between two neighbouring half degrees
Asin(x) ==
    LET below == HalfDegreesBelow(x, 0, 180)
    IN  IF below = 180 THEN 18000
        ELSE below * 100 + ((x - Sin(below)) * 100) \div (Sin(below + 1) - Sin(below))

\* x * y / 10000 for x in 0..10000 and y >= 0, without leaving 32 bits
Scaled(x, y) == x * (y \div 10000) + (x * (y % 10000)) \div 10000

\* Earth radius in km
r == 6371

\* a variant that takes the cosine of the first latitude twice
_calculate_distance_Lopsided(lat1, lon1, lat2, lon2) ==
    LET dlat == lat2 - lat1
        dlon == lon2 - lon1
        a == Sin(dlat) * Sin(dlat)
             + Scaled((Cos(lat1) * Cos(lat1)) \div 10000, Sin(dlon) * Sin(dlon))
        c == 2 * Asin(Sqrt(a))
    IN  ((((c \div 2) * r) \div 1000) * 3142) \div 18

\* _calculate_distance(lat1, lon1, lat2, lon2), in metres
_calculate_distance(lat1, lon1, lat2, lon2) ==
    LET dlat == lat2 - lat1
        dlon == lon2 - lon1
        \* sin(dlat / 2) ** 2 + cos(lat1) * cos(lat2) * sin(dlon / 2) ** 2
        a == Sin(dlat) * Sin(dlat)
             + Scaled((Cos(lat1) * Cos(lat2)) \div 10000, Sin(dlon) * Sin(dlon))
        \* 2 * asin(sqrt(a)), in 1/100 of a half degree
        c == 2 * Asin(Sqrt(a))
        \* c * r: c / 2 is in 1/100 degree, a degree being pi / 180 radians
    IN  ((((c \div 2) * r) \div 1000) * 3142) \div 18

\* a variant that measures every row from the first one
_analyze_movement_patterns_FromFirst(df) ==
    IF Len(df) < 2 THEN [message |-> "Insufficient data for movement analysis"]
    ELSE LET distances ==
                 [i \in 1..(Len(df) - 1) |->
                     _calculate_distance(df[1].latitude[1], df[1].longitude[1],
                                         df[i + 1].latitude[1], df[i + 1].longitude[1])]
             total_distance == SumOf(distances)
         IN  [distances |-> distances,
              total_distance_km |-> Round2(total_distance, 1000),
              avg_distance_per_measurement_m |-> Round2(SumOf(distances), Len(distances)),
              max_distance_between_points_m |-> SeqMax(distances) * 100]

\* _analyze_movement_patterns(df); distances is the local list, in metres, the total
\* is in 1/100 km and the average and the maximum in 1/100 m
_analyze_movement_patterns(df) ==
    IF Len(df) < 2 THEN [message |-> "Insufficient data for movement analysis"]
    ELSE LET distances ==
                 [i \in 1..(Len(df) - 1) |->
                     _calculate_distance(df[i].latitude[1], df[i].longitude[1],
                                         df[i + 1].latitude[1], df[i + 1].longitude[1])]
             total_distance == SumOf(distances)
         IN  [distances |-> distances,
              total_distance_km |-> Round2(total_distance, 1000),
              avg_distance_per_measurement_m |-> Round2(SumOf(distances), Len(distances)),
              max_distance_between_points_m |-> SeqMax(distances) * 100]

\* numpy's round of num / den to an integer, ties to the even one, for den > 0
RoundHalfEven(num, den) ==
    LET q == num \div den
        rest == num % den
    IN  IF 2 * rest < den THEN q
        ELSE IF 2 * rest > den THEN q + 1
        ELSE IF q % 2 = 0 THEN q ELSE q + 1

\* (df[column] * 1000).round() / 1000 of a coordinate in degrees, in 1/1000 degree
Rounded(degrees) == RoundHalfEven(degrees * 1000, 1)

\* round(num / den, 2) for num >= 0 and den > 0, as <<whole part, hundredths>>
Mean2(num, den) ==
    LET rest == (num % den) * 100
        hundredths == rest \div den + (IF 2 * (rest % den) >= den THEN 1 ELSE 0)
    IN  IF hundredths = 100 THEN <<num \div den + 1, 0>> ELSE <<num \div den, hundredths>>

\* a <= b for two such values
AtMost(a, b) == a[1] < b[1] \/ (a[1] = b[1] /\ a[2] <= b[2])

\* the order in which groupby lists its keys
KeyBefore(a, b) == a[1] < b[1] \/ (a[1] = b[1] /\ a[2] < b[2])

\* Series.idxmin(): the first key, in the order of the groups, with the least value
idxmin(keys, value) ==
    CHOOSE k \in keys :
        /\ \A o \in keys : AtMost(value[k], value[o])
        /\ \A o \in keys : (o # k /\ value[o] = value[k]) => KeyBefore(k, o)

\* Series.idxmax(): the first key, in the order of the groups, with the greatest value
idxmax(keys, value) ==
    CHOOSE k \in keys :
        /\ \A o \in keys : AtMost(value[o], value[k])
        /\ \A o \in keys : (o # k /\ value[o] = value[k]) => KeyBefore(k, o)

\* a variant that reports the throughput extremes the wrong way round
_analyze_location_performance_Swapped(df) ==
    LET keys == {<<Rounded(df[i].latitude[1]), Rounded(df[i].longitude[1])>> :
                    i \in DOMAIN df}
        group(k) == SelectSeq(df, LAMBDA p : <<Rounded(p.latitude[1]),
                                               Rounded(p.longitude[1])>> = k)
        ping_latency_ms(k) ==
            Mean2(SumOf(Column(group(k), "ping_latency_ms")), Len(group(k)) * 10)
        downlink_throughput_bps(k) ==
            Mean2(SumOf(Column(group(k), "downlink_throughput_bps")), Len(group(k)))
        located(k, name, value) ==
            [x \in {"lat", "lon", name} |->
                IF x = "lat" THEN k[1] ELSE IF x = "lon" THEN k[2] ELSE value]
    IN  IF keys # {}
        THEN LET best_latency_location == idxmin(keys, [k \in keys |-> ping_latency_ms(k)])
                 worst_latency_location == idxmax(keys, [k \in keys |-> ping_latency_ms(k)])
                 best_throughput_location == idxmin(keys, [k \in keys |-> downlink_throughput_bps(k)])
                 worst_throughput_location == idxmax(keys, [k \in keys |-> downlink_throughput_bps(k)])
             IN  [total_locations_analyzed |-> Cardinality(keys),
                  best_latency_location |->
                      located(best_latency_location, "avg_latency_ms",
                              ping_latency_ms(best_latency_location)),
                  worst_latency_location |->
                      located(worst_latency_location, "avg_latency_ms",
                              ping_latency_ms(worst_latency_location)),
                  best_throughput_location |->
                      located(best_throughput_location, "avg_throughput_mbps",
                              <<downlink_throughput_bps(best_throughput_location), 1000000>>),
                  worst_throughput_location |->
                      located(worst_throughput_location, "avg_throughput_mbps",
                              <<downlink_throughput_bps(worst_throughput_location), 1000000>>)]
        ELSE [message |-> "Insufficient location data for analysis"]

\* _analyze_location_performance(df): a key is (lat_rounded, lon_rounded) in 1/1000
\* degree; the means of location_performance are rounded to 2 decimals, each the pair
\* <<whole part, hundredths>>, the latency one in ms and the throughput one in bps;
\* avg_throughput_mbps is the pair <<mean, 1000000>>.  The mean of ping_drop_rate is aggregated and not reported.
_analyze_location_performance(df) ==
    LET keys == {<<Rounded(df[i].latitude[1]), Rounded(df[i].longitude[1])>> :
                    i \in DOMAIN df}
        group(k) == SelectSeq(df, LAMBDA p : <<Rounded(p.latitude[1]),
                                               Rounded(p.longitude[1])>> = k)
        ping_latency_ms(k) ==
            Mean2(SumOf(Column(group(k), "ping_latency_ms")), Len(group(k)) * 10)
        downlink_throughput_bps(k) ==
            Mean2(SumOf(Column(group(k), "downlink_throughput_bps")), Len(group(k)))
        located(k, name, value) ==
            [x \in {"lat", "lon", name} |->
                IF x = "lat" THEN k[1] ELSE IF x = "lon" THEN k[2] ELSE value]
    IN  IF keys # {}
        THEN LET best_latency_location == idxmin(keys, [k \in keys |-> ping_latency_ms(k)])
                 worst_latency_location == idxmax(keys, [k \in keys |-> ping_latency_ms(k)])
                 best_throughput_location == idxmax(keys, [k \in keys |-> downlink_throughput_bps(k)])
                 worst_throughput_location == idxmin(keys, [k \in keys |-> downlink_throughput_bps(k)])
             IN  [total_locations_analyzed |-> Cardinality(keys),
                  best_latency_location |->
                      located(best_latency_location, "avg_latency_ms",
                              ping_latency_ms(best_latency_location)),
                  worst_latency_location |->
                      located(worst_latency_location, "avg_latency_ms",
                              ping_latency_ms(worst_latency_location)),
                  best_throughput_location |->
                      located(best_throughput_location, "avg_throughput_mbps",
                              <<downlink_throughput_bps(best_throughput_location), 1000000>>),
                  worst_throughput_location |->
                      located(worst_throughput_location, "avg_throughput_mbps",
                              <<downlink_throughput_bps(worst_throughput_location), 1000000>>)]
        ELSE [message |-> "Insufficient location data for analysis"]

analyze_gps_patterns_result ==
    LET gps_data == SelectSeq(performance_data,
                              LAMBDA p : Has(p, "latitude") /\ Has(p, "longitude"))
    IN  IF gps_data = <<>> THEN [message |-> "No GPS data available"]
        ELSE [gps_data_points |-> Len(gps_data),
              unique_locations |->
                  Cardinality({<<gps_data[i].latitude, gps_data[i].longitude>> :
                                 i \in DOMAIN gps_data}),
              coverage_area_km2 |-> _calculate_coverage_area(gps_data),
              movement_analysis |-> _analyze_movement_patterns(gps_data),
              location_performance |-> _analyze_location_performance(gps_data)]

\* a variant that puts a speed of exactly 1 km/h with the stationary ones
_classify_mobility_state_Closed(speed_kmh) ==
    IF speed_kmh <= 10 THEN "stationary"
    ELSE IF speed_kmh < 50 THEN "walking"
    ELSE IF speed_kmh < 250 THEN "cycling"
    ELSE IF speed_kmh < 600 THEN "driving_urban"
    ELSE IF speed_kmh < 1000 THEN "driving_highway"
    ELSE "high_speed"

\* _classify_mobility_state, the speed in 1/10 km/h
_classify_mobility_state(speed_kmh) ==
    IF speed_kmh < 10 THEN "stationary"
    ELSE IF speed_kmh < 50 THEN "walking"
    ELSE IF speed_kmh < 250 THEN "cycling"
    ELSE IF speed_kmh < 600 THEN "driving_urban"
    ELSE IF speed_kmh < 1000 THEN "driving_highway"
    ELSE "high_speed"

\* _analyze_speed_performance_correlation(df)["speed_correlations"]: the keys of the
\* mapping
SpeedCorrelations(df) ==
    IF Len(df) > 10
    THEN {"speed_vs_latency", "speed_vs_packet_loss", "speed_vs_throughput"}
    ELSE {}

analyze_mobility_patterns_result ==
    LET mobile_data == SelectSeq(performance_data, LAMBDA p : Has(p, "speed_kmh"))
        speeds == Values(mobile_data, "speed_kmh")
        mobility_state == [i \in DOMAIN speeds |-> _classify_mobility_state(speeds[i])]
    IN  IF mobile_data = <<>> THEN [message |-> "No mobility data available"]
        ELSE [avg_speed |-> <<SumOf(speeds), Len(speeds)>>,
              max_speed |-> SeqMax(speeds),
              \* value_counts().to_dict(): the states met, each with its count
              mobility_distribution |->
                  [state \in {mobility_state[i] : i \in DOMAIN mobility_state} |->
                      CountOf(mobility_state, state)],
              speed_correlations |-> SpeedCorrelations(mobile_data)]

(***************************************************************************)
(* analyze_performance_trends.                                             *)
(***************************************************************************)
\* a variant without the test for an empty performance_data
analyze_performance_trends_result_Unguarded ==
    [total_measurements |-> Len(performance_data),
     avg_latency |->
         <<SumOf(Column(performance_data, "ping_latency_ms")), Len(performance_data)>>,
     avg_packet_loss |->
         <<SumOf(Column(performance_data, "ping_drop_rate")) * 100, Len(performance_data)>>,
     degradation_events |-> Len(threshold_violations),
     gps_analysis |-> analyze_gps_patterns_result,
     mobility_analysis |-> analyze_mobility_patterns_result]

analyze_performance_trends_result ==
    IF performance_data = <<>> THEN [message |-> "No performance data found"]
    ELSE [total_measurements |-> Len(performance_data),
          avg_latency |->
              <<SumOf(Column(performance_data, "ping_latency_ms")), Len(performance_data)>>,
          avg_packet_loss |->
              <<SumOf(Column(performance_data, "ping_drop_rate")) * 100,
                Len(performance_data)>>,
          degradation_events |-> Len(threshold_violations),
          gps_analysis |-> analyze_gps_patterns_result,
          mobility_analysis |-> analyze_mobility_patterns_result]

\* the timestamps of one run are all naive or all offset-aware here
analyze_performance_trends ==
    /\ performance_analysis = NotRun
    /\ ~ AnalysisPeriodRaises
    /\ performance_analysis' = analyze_performance_trends_result
    /\ pc' = "analysis"
    /\ UNCHANGED <<system_logs, performance_data, failover_events, reboot_events,
                   threshold_violations, csv_content, perf_mark, viol_mark, lines_read,
                   rows_read, event_correlation, recommendations, failover_analysis,
                   storage, parsed_entries, modular>>

(***************************************************************************)
(* generate_report.                                                        *)
(***************************************************************************)
\* report["data_summary"]["analysis_period"], when min() and max() do not raise
analysis_period ==
    IF performance_data = <<>> THEN [start |-> None, end |-> None]
    ELSE LET stamps == [i \in DOMAIN performance_data |-> performance_data[i].timestamp.secs]
         IN  [start |-> Some(SeqMin(stamps)), end |-> Some(SeqMax(stamps))]

\* the report dict is built entry by entry, then written: the first step that raises
\* ends the call.  writable: open(output_file, "w") succeeds.
generate_report(writable) ==
    /\ pc = "downloaded"
    /\ IF AnalysisPeriodRaises
       THEN /\ pc' = "failed"
            /\ UNCHANGED results
       ELSE /\ failover_analysis' = analyze_failover_patterns_result
            /\ performance_analysis' = analyze_performance_trends_result
            /\ event_correlation' = correlate_events_and_performance_result
            /\ IF CorrelateRaises
               THEN /\ pc' = "failed"
                    /\ UNCHANGED recommendations
               ELSE /\ recommendations' = generate_threshold_recommendations_result
                    \* json.dump raises TypeError on the datetime.date keys of
                    \* daily_distribution: default= is not applied to keys
                    /\ pc' = IF ~ writable THEN "write_failed"
                             ELSE IF failover_events # <<>> THEN "failed"
                             ELSE "report"
    /\ UNCHANGED <<system_logs, performance_data, failover_events, reboot_events,
                   threshold_violations, csv_content, perf_mark, viol_mark, lines_read,
                   rows_read, storage, parsed_entries, modular>>

(***************************************************************************)
(* analysis/data_downloader.py and analysis/network_analyzer.py: the       *)
(* modular pipeline.                                                       *)
(***************************************************************************)
\* DataDownloader._parse_system_logs(content, log_date): the body is `pass`
DataDownloader_parse_system_logs(content, log_date, logs) == logs

\* DataDownloader._parse_performance_data(content, log_date): the body is `pass`
DataDownloader_parse_performance_data(content, log_date, data) == data

\* start_date.date() <= blob_date <= end_date.date() with days_back days
InLastDays(blob_date, today, days_back) ==
    today - days_back <= blob_date /\ blob_date <= today

RECURSIVE DataDownloader_download_logs(_, _, _, _, _)
\* DataDownloader._download_logs: the list of log_type after the blobs in listed
\* order, up to the first item that raises
DataDownloader_download_logs(blobs, today, days_back, log_type, acc) ==
    IF blobs = <<>> THEN [list |-> acc, raised |-> FALSE]
    ELSE IF \/ Head(blobs).fault = "listing"
            \/ /\ Head(blobs).fault = "download"
               /\ InLastDays(Head(blobs).blob_date, today, days_back)
    THEN [list |-> acc, raised |-> TRUE]
    ELSE DataDownloader_download_logs(
             Tail(blobs), today, days_back, log_type,
             IF ~ InLastDays(Head(blobs).blob_date, today, days_back) THEN acc
             ELSE IF log_type = "system"
             THEN DataDownloader_parse_system_logs(Head(blobs).content,
                                                   Head(blobs).blob_date, acc)
             ELSE DataDownloader_parse_performance_data(Head(blobs).content,
                                                        Head(blobs).blob_date, acc))

\* the empty dict
EmptyDict == <<>>

\* NetworkAnalyzer.run_analysis(days): the download, the no-data check and the
\* data_summary of the result (statistics, patterns, insights and charts come from
\* PerformanceAnalyzer and Visualizer and are left out)
run_analysis(today, days) ==
    /\ run_result = NotRun
    /\ LET sys == DataDownloader_download_logs(system_container, today, days, "system",
                                               downloader_system_logs)
           perf == DataDownloader_download_logs(
                       IF sys.raised THEN <<>> ELSE performance_container,
                       today, days, "performance", downloader_performance_data)
       IN  /\ downloader_system_logs' = sys.list
           /\ downloader_performance_data' = perf.list
           /\ run_result' =
                  IF sys.raised \/ perf.raised THEN [raised |-> "Exception"]
                  \* if not self.downloader.system_logs and not ...performance_data
                  ELSE IF sys.list = <<>> /\ perf.list = <<>> THEN EmptyDict
                  ELSE [analysis_period |-> [days_analyzed |-> days],
                        data_summary |->
                            [log_entries |-> Len(sys.list),
                             performance_entries |-> Len(perf.list),
                             log_files_processed |-> Len(sys.list) + Len(perf.list)]]
    /\ UNCHANGED <<system_logs, performance_data, failover_events, reboot_events,
                   threshold_violations, pc, csv_content, perf_mark, viol_mark,
                   lines_read, rows_read, results, storage, parsed_entries>>

(***************************************************************************)
(* The state after NetworkAnalyzer.__init__.                               *)
(***************************************************************************)
InitAnalyzer ==
    /\ system_logs = <<>>
    /\ performance_data = <<>>
    /\ failover_events = <<>>
    /\ reboot_events = <<>>
    /\ threshold_violations = <<>>
    /\ pc = "ingest"
    /\ csv_content = <<>>
    /\ perf_mark = 0
    /\ viol_mark = 0
    /\ lines_read = 0
    /\ rows_read = 0
    /\ event_correlation = NotRun
    /\ recommendations = NotRun
    /\ failover_analysis = NotRun
    /\ performance_analysis = NotRun
    /\ parsed_entries = <<>>
    /\ downloader_system_logs = <<>>
    /\ downloader_performance_data = <<>>
    /\ run_result = NotRun

\* a run against an empty storage account
Init ==
    /\ InitAnalyzer
    /\ system_container = <<>>
    /\ performance_container = <<>>

(***************************************************************************)
(* Input universe of the CSV specification: lines of every width, and the  *)
(* ways a line can be malformed.                                           *)
(***************************************************************************)
\* a well-formed part for column i of a line whose timestamp is t
GoodPart(i, t) ==
    IF i = 0 THEN Iso(t)
    ELSE IF i = 2 THEN Num(50000000)
    ELSE IF i = 5 THEN Num(40)
    ELSE IF i \in {8, 10, 11} THEN Txt("false")
    ELSE IF i = 13 THEN Txt("CONNECTED")
    ELSE IF i = 14 THEN Txt("stationary")
    ELSE IF i = 18 THEN Num(59)
    ELSE IF i = 19 THEN Num(18)
    ELSE IF i = 23 THEN Txt("rutos")
    ELSE IF i = 24 THEN Num(9)
    ELSE Num(1)

\* a line of n columns, all well-formed, stamped with its own width
GoodLine(n) == [i \in 1..n |-> GoodPart(i - 1, n)]

\* line with column i replaced by part p
WithPart(line, i, p) == [line EXCEPT ![i + 1] = p]

HeaderLine == [i \in 1..8 |-> IF i = 1 THEN Txt("timestamp") ELSE Txt("column")]

CsvLines ==
    {GoodLine(n) : n \in 1..MaxCols}
    \cup {<<Blank>>, HeaderLine,
          WithPart(GoodLine(8), 0, Txt("yesterday")),
          WithPart(GoodLine(8), 0, Blank),
          WithPart(GoodLine(8), 5, Txt("n/a")),
          WithPart(GoodLine(8), 5, Blank),
          WithPart(GoodLine(14), 9, Txt("n/a")),
          WithPart(GoodLine(26), 24, Txt("n/a")),
          WithPart(GoodLine(26), 18, Blank),
          WithPart(GoodLine(26), 19, Blank),
          WithPart(GoodLine(26), 0, IsoZ(26)),
          [i \in 1..26 |-> IF i <= 8 THEN GoodPart(i - 1, 26) ELSE Blank]}

CsvFiles == SeqsUpTo(CsvLines, MaxRows)

NextCsv == \E content \in CsvFiles : _parse_performance_data(content)

SpecCsv == Init /\ [][NextCsv]_vars

(***************************************************************************)
(* Claims about _parse_performance_data.                                   *)
(***************************************************************************)
\* columns the parser converts with float() / int()
NumericColumns == (1..7) \cup {9, 18, 19, 20, 21, 22, 24, 25}

\* column i of a line holds text its conversion accepts (a blank is defaulted)
PartParses(i, p) ==
    IF i = 0 THEN p.k \in {"iso", "isoZ"}
    ELSE IF i \in NumericColumns THEN p.k \in {"blank", "num"}
    ELSE TRUE

\* at least 8 columns, and every column the line has parses
WellFormedRow(line) ==
    /\ Len(line) >= 8
    /\ \A i \in 0..(Len(line) - 1) : PartParses(i, At(line, i))

\* fewer than 8 columns, or a column whose timestamp / numeric parse fails
MalformedRow(line) == ~ WellFormedRow(line)

\* what the last _parse_performance_data call appended
NewEntries == SubSeq(performance_data, perf_mark + 1, Len(performance_data))
NewViolations == SubSeq(threshold_violations, viol_mark + 1, Len(threshold_violations))

SetMin(S) == CHOOSE x \in S : \A y \in S : x <= y

\* C1: in a file holding a malformed row (fewer than 8 columns, or a field that does
\* not parse), the malformed rows add no entry to performance_data and none to
\* threshold_violations, and every well-formed row after the malformed one is
\* still materialised, in order.
C1_MalformedRowAbortsOnlyItself ==
    LET good == {i \in DOMAIN csv_content : WellFormedRow(csv_content[i])}
        bad == {i \in DOMAIN csv_content :
                    MalformedRow(csv_content[i]) /\ ~ IsBlankLine(csv_content[i])}
    IN  bad # {} =>
          LET after == SubSeq(csv_content, SetMin(bad) + 1, Len(csv_content))
              wf == SelectSeq(after, WellFormedRow)
              k == Len(wf)
              n == Len(NewEntries)
          IN  /\ n <= Cardinality(good)
              /\ \A j \in DOMAIN NewViolations :
                    \E m \in DOMAIN NewEntries : NewViolations[j].metrics = NewEntries[m]
              /\ n >= k
              /\ \A j \in 1..k : NewEntries[n - k + j].timestamp = FromIso(wf[j][1])

\* C2: a row of n columns, 8 <= n <= 26, whose present fields are all well-formed is
\* materialised as a performance record.
C2_EveryWidthMaterialised ==
    \A i \in DOMAIN csv_content :
        LET row == csv_content[i]
        IN  (Len(row) \in 8..26 /\ WellFormedRow(row)) =>
                \E j \in DOMAIN NewEntries : NewEntries[j].timestamp = FromIso(row[1])

(***************************************************************************)
(* Input universe of the threshold specification: 8-column lines whose     *)
(* four monitored metrics sit at and just beyond each limit.               *)
(***************************************************************************)
MetricLine(latency, drop, downlink, obstruction) ==
    <<Iso(0), Num(1), Num(downlink), Num(1), Num(drop), Num(latency), Num(1),
      Num(obstruction)>>

ThrLines ==
    {MetricLine(l, d, t, o) : l \in {6000, 6001}, d \in {50, 51},
                              t \in {9999999, 10000000}, o \in {20, 21}}
    \cup {WithPart(MetricLine(6001, 51, 9999999, 21), 5, Txt("n/a")),
          WithPart(MetricLine(6000, 50, 10000000, 20), 5, Blank)}

ThrFiles == SeqsUpTo(ThrLines, MaxRows)

NextThr ==
    \/ \E content \in ThrFiles : _parse_performance_data(content)
    \/ generate_threshold_recommendations

SpecThr == Init /\ [][NextThr]_vars

(***************************************************************************)
(* Claims about _check_performance_thresholds.                             *)
(***************************************************************************)
\* the descriptions a record must carry, by the four documented limits
ExpectedTexts(entry) ==
    (IF entry.ping_latency_ms > 6000 THEN <<"High latency">> ELSE <<>>)
    \o (IF entry.ping_drop_rate > 50 THEN <<"High packet loss">> ELSE <<>>)
    \o (IF entry.downlink_throughput_bps < 10000000 THEN <<"Low downlink">> ELSE <<>>)
    \o (IF entry.obstruction_fraction > 20 THEN <<"High obstruction">> ELSE <<>>)

TextsOf(violation) == [i \in DOMAIN violation.violations |-> violation.violations[i].text]

\* C4: the violation list of a record holds the latency description iff latency > 600,
\* the packet-loss description iff drop rate > 0.05, the downlink description iff
\* downlink < 10,000,000 and the obstruction description iff obstruction > 0.02, in that
\* order, whatever was processed before; a record at the limits has no violation.
C4_ViolationListByLimits ==
    /\ \A j \in DOMAIN threshold_violations :
          TextsOf(threshold_violations[j]) = ExpectedTexts(threshold_violations[j].metrics)
    /\ \A i \in DOMAIN performance_data :
          (ExpectedTexts(performance_data[i]) # <<>>) <=>
              \E j \in DOMAIN threshold_violations :
                  threshold_violations[j].metrics = performance_data[i]

\* two records that differ in latency alone, 600.0 and 600.1 ms: only the second is flagged,
\* and with the latency description alone
C4_Witness ==
    \E i, m \in DOMAIN performance_data :
        /\ performance_data[i].ping_latency_ms = 6000
        /\ performance_data[m] = [performance_data[i] EXCEPT !.ping_latency_ms = 6001]
        /\ ExpectedTexts(performance_data[i]) = <<>>
        /\ \E j \in DOMAIN threshold_violations :
              /\ threshold_violations[j].metrics = performance_data[m]
              /\ TextsOf(threshold_violations[j]) = <<"High latency">>

Breaches(entry) == ExpectedTexts(entry) # <<>>

\* C5: threshold_violations holds one entry per materialised record that breaches a
\* limit, in the records' order and none for the others; an entry's metrics is its
\* record and its timestamp the record's; so there are no more violations than records.
C5_OneViolationPerBreachingRecord ==
    /\ [j \in DOMAIN threshold_violations |-> threshold_violations[j].metrics]
          = SelectSeq(performance_data, Breaches)
    /\ \A j \in DOMAIN threshold_violations :
          threshold_violations[j].timestamp = threshold_violations[j].metrics.timestamp
    /\ Len(threshold_violations) <= Len(performance_data)
    /\ "violation_analysis" \in DOMAIN recommendations =>
          LET rate == recommendations.violation_analysis.violation_rate_pct
          IN  0 <= rate[1] /\ rate[1] <= 100 * rate[2]

\* a clean record followed by a breaching one, and the rate reported for them
C5_Witness ==
    /\ Len(performance_data) = 2
    /\ ~ Breaches(performance_data[1])
    /\ Breaches(performance_data[2])
    /\ Len(threshold_violations) = 1
    /\ "violation_analysis" \in DOMAIN recommendations
    /\ recommendations.violation_analysis.violation_rate_pct = <<100, 2>>

(***************************************************************************)
(* Input universes of the log specifications.                              *)
(***************************************************************************)
SyslogLine(secs, process, pid, message) ==
    [fmt |-> "syslog", stamp |-> [valid |-> TRUE, secs |-> secs], hostname |-> "RUTX50",
     process |-> process, pid |-> pid, message |-> message]

BlankLine ==
    [fmt |-> "blank", stamp |-> [valid |-> FALSE, secs |-> 0], hostname |-> "",
     process |-> <<>>, pid |-> <<>>, message |-> <<>>]

OtherLine == [BlankLine EXCEPT !.fmt = "other"]

\* a syslog line whose date does not exist in the blob's year ("Feb 30 ...")
BadDateLine(process, message) ==
    [SyslogLine(0, process, <<>>, message) EXCEPT !.stamp = [valid |-> FALSE, secs |-> 0]]

Mwan3 == <<"m", "w", "a", "n", "3">>

\* messages: each keyword of either component alone, a neutral text, and mixtures
Phrases ==
    {<<"f", "a", "i", "l", "o", "v", "e", "r">>,
     <<"s", "w", "i", "t", "c", "h", "i", "n", "g">>,
     <<"r", "o", "u", "t", "e", " ", "c", "h", "a", "n", "g", "e">>,
     <<"m", "e", "t", "r", "i", "c">>,
     <<"s", "w", "i", "t", "c", "h", "i", "n", "g", " ", "t", "o", " ", "b", "a", "c", "k", "u", "p">>,
     <<"s", "t", "a", "r", "l", "i", "n", "k", " ", "d", "o", "w", "n">>,
     <<"p", "r", "i", "m", "a", "r", "y", " ", "w", "a", "n", " ", "d", "o", "w", "n">>,
     <<"b", "a", "c", "k", "u", "p", " ", "w", "a", "n", " ", "u", "p">>,
     <<"c", "o", "n", "n", "e", "c", "t", "i", "o", "n", " ", "r", "e", "s", "t", "o", "r", "e", "d">>,
     <<"w", "a", "n", " ", "f", "a", "i", "l", "o", "v", "e", "r">>,
     <<"r", "e", "b", "o", "o", "t">>,
     <<"r", "e", "s", "t", "a", "r", "t">>,
     <<"s", "t", "a", "r", "t", "u", "p">>,
     <<"s", "h", "u", "t", "d", "o", "w", "n">>,
     <<"s", "y", "s", "t", "e", "m", " ", "h", "a", "l", "t">>,
     <<"b", "o", "o", "t", "i", "n", "g">>,
     <<"s", "y", "s", "t", "e", "m", " ", "s", "t", "a", "r", "t", "u", "p">>,
     <<"i", "n", "i", "t", ":">>,
     <<"k", "e", "r", "n", "e", "l", ":">>,
     <<"n", "e", "t", "w", "o", "r", "k">>,
     <<"i", "n", "t", "e", "r", "f", "a", "c", "e">>,
     <<"c", "o", "n", "n", "e", "c", "t", "i", "o", "n">>,
     <<"l", "i", "n", "k">>,
     <<"g", "p", "s">>,
     <<"l", "o", "c", "a", "t", "i", "o", "n">>,
     <<"c", "o", "o", "r", "d", "i", "n", "a", "t", "e">>,
     <<"s", "t", "a", "r", "l", "i", "n", "k">>,
     <<"d", "i", "s", "h", "y">>,
     <<"s", "a", "t", "e", "l", "l", "i", "t", "e">>,
     <<"h", "e", "l", "l", "o">>,
     <<"F", "a", "i", "l", "o", "v", "e", "r", " ", "t", "o", " ", "L", "T", "E">>,
     <<"R", "E", "B", "O", "O", "T", " ", "r", "e", "q", "u", "e", "s", "t", "e", "d">>,
     <<"f", "a", "i", "l", "o", "v", "e", "r", " ", "a", "f", "t", "e", "r", " ", "r", "e", "b", "o", "o", "t">>,
     <<"d", "i", "s", "h", "y", " ", "g", "p", "s", " ", "f", "i", "x">>,
     <<"E", "R", "R", "O", "R", " ", "l", "i", "n", "k", " ", "l", "o", "s", "t">>}

PhraseLines ==
    {SyslogLine(LogDay * SecondsPerDay + 37845, Mwan3, <<>>, m) : m \in Phrases}
    \cup {SyslogLine(LogDay * SecondsPerDay + 37845, p, <<"4", "2">>, <<"h", "e", "l", "l", "o">>) :
            p \in {<<"k", "e", "r", "n", "e", "l">>, <<"S", "y", "s", "t", "e", "m", "d">>, <<"c", "r", "o", "n", "d">>}}
    \cup {BadDateLine(Mwan3, <<"f", "a", "i", "l", "o", "v", "e", "r">>),
          BadDateLine(Mwan3, <<"h", "e", "l", "l", "o">>)}

Blob(day, content) == [blob_date |-> day, content |-> content, fault |-> "none"]

\* a system-logs container holding one blob of up to MaxBlobLines lines
InitLog ==
    /\ InitAnalyzer
    /\ system_container \in {<<Blob(LogDay, c)>> : c \in SeqsUpTo(PhraseLines, MaxBlobLines)}
    /\ performance_container = <<>>

NextLog ==
    \/ \E i \in DOMAIN system_container :
          _parse_system_logs(system_container[i].content, system_container[i].blob_date)
    \/ \E i \in DOMAIN system_container :
          LogParser_parse_system_logs(system_container[i].content,
                                      system_container[i].blob_date)

SpecLog == InitLog /\ [][NextLog]_vars

EventLines ==
    {SyslogLine(100, Mwan3, <<>>, <<"f", "a", "i", "l", "o", "v", "e", "r">>),
     SyslogLine(200, Mwan3, <<>>, <<"w", "a", "n", " ", "f", "a", "i", "l", "o", "v", "e", "r">>),
     SyslogLine(300, Mwan3, <<>>, <<"r", "e", "b", "o", "o", "t">>),
     SyslogLine(400, Mwan3, <<>>, <<"f", "a", "i", "l", "o", "v", "e", "r", " ", "a", "f", "t", "e", "r", " ", "r", "e", "b", "o", "o", "t">>),
     SyslogLine(500, Mwan3, <<>>, <<"h", "e", "l", "l", "o">>),
     BadDateLine(Mwan3, <<"f", "a", "i", "l", "o", "v", "e", "r">>),
     BlankLine,
     OtherLine}

EventFiles == SeqsUpTo(EventLines, MaxLogLines)

NextEvents == \E content \in EventFiles : _parse_system_logs(content, LogDay)

SpecEvents == Init /\ [][NextEvents]_vars

(***************************************************************************)
(* Claims about event classification and materialisation.                  *)
(***************************************************************************)
\* the documented FAILOVER keyword list
DocFailoverKeywords ==
    {<<"f", "a", "i", "l", "o", "v", "e", "r">>,
     <<"s", "w", "i", "t", "c", "h", "i", "n", "g">>,
     <<"r", "o", "u", "t", "e", " ", "c", "h", "a", "n", "g", "e">>,
     <<"m", "e", "t", "r", "i", "c">>,
     <<"s", "w", "i", "t", "c", "h", "i", "n", "g", " ", "t", "o", " ", "b", "a", "c", "k", "u", "p">>,
     <<"s", "t", "a", "r", "l", "i", "n", "k", " ", "d", "o", "w", "n">>,
     <<"p", "r", "i", "m", "a", "r", "y", " ", "w", "a", "n", " ", "d", "o", "w", "n">>,
     <<"b", "a", "c", "k", "u", "p", " ", "w", "a", "n", " ", "u", "p">>,
     <<"c", "o", "n", "n", "e", "c", "t", "i", "o", "n", " ", "r", "e", "s", "t", "o", "r", "e", "d">>,
     <<"w", "a", "n", " ", "f", "a", "i", "l", "o", "v", "e", "r">>}

\* the documented REBOOT keyword list
DocRebootKeywords ==
    {<<"r", "e", "b", "o", "o", "t">>,
     <<"r", "e", "s", "t", "a", "r", "t">>,
     <<"s", "t", "a", "r", "t", "u", "p">>,
     <<"s", "h", "u", "t", "d", "o", "w", "n">>,
     <<"s", "y", "s", "t", "e", "m", " ", "h", "a", "l", "t">>,
     <<"b", "o", "o", "t", "i", "n", "g">>,
     <<"s", "y", "s", "t", "e", "m", " ", "s", "t", "a", "r", "t", "u", "p">>,
     <<"i", "n", "i", "t", ":">>,
     <<"k", "e", "r", "n", "e", "l", ":">>}


\* an Event of the list was materialised from the log entry
HasEvent(events, log_entry) ==
    \E j \in DOMAIN events :
        /\ events[j].timestamp = log_entry.timestamp
        /\ events[j].message = log_entry.message
        /\ events[j].process = log_entry.process

\* C8: for every parsed log entry a failover Event is materialised exactly when the
\* message contains a keyword of the documented FAILOVER list, a reboot Event exactly
\* when it contains one of the documented REBOOT list, and these are exactly the
\* entries the classifier tags FAILOVER and REBOOT.
C8_ClassifierAndEventsAgree ==
    \A i \in DOMAIN system_logs :
        LET log_entry == system_logs[i]
            tag == _classify_event(log_entry.process, log_entry.message)
        IN  /\ HasEvent(failover_events, log_entry)
                <=> AnyIn(DocFailoverKeywords, Lower(log_entry.message))
            /\ HasEvent(reboot_events, log_entry)
                <=> AnyIn(DocRebootKeywords, Lower(log_entry.message))
            /\ (tag = "FAILOVER") => HasEvent(failover_events, log_entry)
            /\ (tag = "REBOOT") => HasEvent(reboot_events, log_entry)
            /\ (tag \notin {"FAILOVER", "REBOOT"}) =>
                  /\ ~ HasEvent(failover_events, log_entry)
                  /\ ~ HasEvent(reboot_events, log_entry)

MatchesFailover(log_entry) == AnyIn(failover_keywords, Lower(log_entry.message))
MatchesReboot(log_entry) == AnyIn(reboot_keywords, Lower(log_entry.message))

EventsOf(type, entries) == [i \in DOMAIN entries |-> Event(type, entries[i])]

\* C9: each parsed log entry adds at most one failover Event and at most one reboot
\* Event: none when its message matches no keyword of _identify_events, one of the
\* kind it matches, one of each kind when it matches both; so failover_events and
\* reboot_events are the matching entries of system_logs, once each and in order.
C9_OneEventPerKindPerEntry ==
    /\ failover_events = EventsOf("failover", SelectSeq(system_logs, MatchesFailover))
    /\ reboot_events = EventsOf("reboot", SelectSeq(system_logs, MatchesReboot))
    /\ Len(failover_events) <= Len(system_logs)
    /\ Len(reboot_events) <= Len(system_logs)

\* three entries matching failover, reboot and no keyword: two Events in all
C9_Witness ==
    /\ Len(system_logs) = 3
    /\ MatchesFailover(system_logs[1]) /\ ~ MatchesReboot(system_logs[1])
    /\ MatchesReboot(system_logs[2]) /\ ~ MatchesFailover(system_logs[2])
    /\ ~ MatchesFailover(system_logs[3]) /\ ~ MatchesReboot(system_logs[3])
    /\ Len(failover_events) + Len(reboot_events) = 2
    /\ failover_events[1].type = "failover"
    /\ reboot_events[1].type = "reboot"

\* the categories whose keyword list matches the entry, OTHER when none does
MatchingCategories(process, message) ==
    LET hits == {c \in {"FAILOVER", "REBOOT", "NETWORK", "GPS", "STARLINK", "SYSTEM"} :
                    \/ c = "FAILOVER" /\ AnyIn(ClassifierFailover, Lower(message))
                    \/ c = "REBOOT" /\ AnyIn(ClassifierReboot, Lower(message))
                    \/ c = "NETWORK" /\ AnyIn(ClassifierNetwork, Lower(message))
                    \/ c = "GPS" /\ AnyIn(ClassifierGps, Lower(message))
                    \/ c = "STARLINK" /\ AnyIn(ClassifierStarlink, Lower(message))
                    \/ c = "SYSTEM" /\ AnyIn(ClassifierSystem, Lower(process))}
    IN  IF hits = {} THEN {"OTHER"} ELSE hits

\* C10: the classifier tags an entry with every category whose keyword list matches
\* it, and with OTHER exactly when none matches (the str it returns is one tag).
C10_ClassifierReturnsAllCategories ==
    \A i \in DOMAIN parsed_entries :
        {parsed_entries[i].event_type}
            = MatchingCategories(parsed_entries[i].process, parsed_entries[i].message)

(***************************************************************************)
(* Input universe of the correlation specification: one failover and one   *)
(* reboot line at second 4000, and performance rows at and just beyond     *)
(* each half-window on both sides of it, naive and offset-aware.           *)
(***************************************************************************)
SampleLine(stamp) ==
    <<stamp, Num(1), Num(50000000), Num(1), Num(stamp.v % 7), Num((stamp.v % 100) + 20),
      Num(1), Num(0)>>

CorrRows ==
    {SampleLine(Iso(4000 + d)) : d \in {-3601, -3600, -1801, -1800, 0,
                                         1800, 1801, 3600, 3601}}
    \cup {SampleLine(IsoZ(4000))}

CorrLogLines ==
    {SyslogLine(4000, Mwan3, <<>>, <<"f", "a", "i", "l", "o", "v", "e", "r">>),
     SyslogLine(4000, Mwan3, <<>>, <<"r", "e", "b", "o", "o", "t">>),
     SyslogLine(9000, Mwan3, <<>>, <<"f", "a", "i", "l", "o", "v", "e", "r">>)}

NextCorr ==
    \/ \E content \in SeqsUpTo(CorrRows, MaxRows) : _parse_performance_data(content)
    \/ \E content \in SeqsUpTo(CorrLogLines, MaxLogLines) :
          _parse_system_logs(content, LogDay)
    \/ correlate_events_and_performance

SpecCorr == Init /\ [][NextCorr]_vars

(***************************************************************************)
(* Claims about correlate_events_and_performance.                          *)
(***************************************************************************)
HalfWindow(event_type) == IF event_type = "failover" THEN 1800 ELSE 3600

EventsOfType(event_type) ==
    IF event_type = "failover" THEN failover_events ELSE reboot_events

\* record p lies in the window of event: both are instants on the same clock and at
\* most the half-window apart, before or after
InWindowOf(p, event, event_type) ==
    /\ p.timestamp.aware = event.timestamp.aware
    /\ p.timestamp.secs - event.timestamp.secs <= HalfWindow(event_type)
    /\ event.timestamp.secs - p.timestamp.secs <= HalfWindow(event_type)

Selection(event, event_type) ==
    {i \in DOMAIN performance_data : InWindowOf(performance_data[i], event, event_type)}

Emitted == IF "events" \in DOMAIN event_correlation THEN event_correlation.events ELSE <<>>

\* C6: once the correlator has run, the records it selected for an event are those at
\* most 1800 s (failover) or 3600 s (reboot) from it, both ends included, before or
\* after: an event with such records has a correlation over exactly those records,
\* and every correlation of the event counts exactly them.
C6_WindowSelection ==
    event_correlation # NotRun =>
        \A event_type \in {"failover", "reboot"} :
            \A j \in DOMAIN EventsOfType(event_type) :
                LET event == EventsOfType(event_type)[j]
                    chosen == Selection(event, event_type)
                    mine == {k \in DOMAIN Emitted :
                                /\ Emitted[k].event_type = event_type
                                /\ Emitted[k].timestamp = event.timestamp}
                IN  /\ chosen # {} => mine # {}
                    /\ \A k \in mine :
                          /\ Emitted[k].performance_samples = Cardinality(chosen)
                          /\ Emitted[k].avg_latency_ms =
                                <<SumOf([i \in 1..Cardinality(chosen) |->
                                           performance_data[
                                             CHOOSE c \in chosen :
                                               Cardinality({d \in chosen : d <= c}) = i
                                           ].ping_latency_ms]),
                                  Cardinality(chosen)>>

RECURSIVE EventsWithRecords(_, _)
\* the events of a list that have at least one record in their window, in order
EventsWithRecords(events, event_type) ==
    IF events = <<>> THEN <<>>
    ELSE (IF Selection(Head(events), event_type) # {}
          THEN <<[event_type |-> event_type, timestamp |-> Head(events).timestamp,
                  performance_samples |->
                      Cardinality(Selection(Head(events), event_type))]>>
          ELSE <<>>)
         \o EventsWithRecords(Tail(events), event_type)

ExpectedCorrelations ==
    EventsWithRecords(reboot_events, "reboot")
    \o EventsWithRecords(failover_events, "failover")

\* C7: once the correlator has run, there is exactly one Correlation per reboot or
\* failover event that has a record in its window and none for the others, each
\* with performance_samples >= 1 equal to the size of its selection, and
\* correlations_found is the number of Correlations.
C7_OneCorrelationPerEventWithRecords ==
    (event_correlation # NotRun
     /\ (ExpectedCorrelations # <<>> \/ "events" \in DOMAIN event_correlation)) =>
        /\ "events" \in DOMAIN event_correlation
        /\ Len(Emitted) = Len(ExpectedCorrelations)
        /\ \A k \in DOMAIN Emitted :
              /\ Emitted[k].event_type = ExpectedCorrelations[k].event_type
              /\ Emitted[k].timestamp = ExpectedCorrelations[k].timestamp
              /\ Emitted[k].performance_samples = ExpectedCorrelations[k].performance_samples
              /\ Emitted[k].performance_samples >= 1
        /\ event_correlation.correlations_found = Len(Emitted)

(***************************************************************************)
(* Input universe of the run specification: containers listing dated       *)
(* blobs in any order.  Each blob is sorted, holds the records of its own  *)
(* day, and no two listed blobs are of the same day.                       *)
(***************************************************************************)
DayStart(day) == day * SecondsPerDay

BlobDays == {LogDay - DaysBack - 1, LogDay - 1, LogDay}

PerformanceBlobs ==
    {Blob(day, <<SampleLine(Iso(DayStart(day) + 600))>>) : day \in BlobDays}
    \cup {Blob(day, <<HeaderLine, SampleLine(Iso(DayStart(day) + 600)),
                      SampleLine(Iso(DayStart(day) + 1200))>>) : day \in BlobDays}
    \cup {Blob(LogDay - 2, <<SampleLine(IsoZ(DayStart(LogDay - 2) + 600))>>)}

SystemBlobs ==
    {Blob(day, <<SyslogLine(DayStart(day) + 900, Mwan3, <<>>,
                            <<"f", "a", "i", "l", "o", "v", "e", "r">>)>>) :
        day \in BlobDays}
    \cup {Blob(day, <<SyslogLine(DayStart(day) + 300, Mwan3, <<>>,
                                 <<"r", "e", "b", "o", "o", "t">>),
                      SyslogLine(DayStart(day) + 900, Mwan3, <<>>,
                                 <<"f", "a", "i", "l", "o", "v", "e", "r">>)>>) :
            day \in BlobDays}

\* the listings a container can return
Listings(blobs) ==
    {<<>>} \cup {l \in SeqsUpTo(blobs, MaxBlobs) :
                    \A i, j \in DOMAIN l : i # j => l[i].blob_date # l[j].blob_date}

InitRun ==
    /\ InitAnalyzer
    /\ system_container \in Listings(SystemBlobs)
    /\ performance_container \in Listings(PerformanceBlobs)

NextRun ==
    \/ download_data(LogDay)
    \/ \E writable \in BOOLEAN : generate_report(writable)

SpecRun == InitRun /\ [][NextRun]_vars

(***************************************************************************)
(* Claims about the order of the merged stream.                            *)
(***************************************************************************)
NonDecreasing(records) ==
    \A i, j \in DOMAIN records : i < j => records[i].timestamp.secs <= records[j].timestamp.secs

\* C3: whatever the order of the listings, when generate_report has run its analyses
\* performance_data, failover_events and reboot_events are each in non-decreasing
\* timestamp order.
C3_MergedStreamSorted ==
    pc = "report" =>
        /\ NonDecreasing(performance_data)
        /\ NonDecreasing(failover_events)
        /\ NonDecreasing(reboot_events)

(***************************************************************************)
(* Claims about log lines whose date does not exist.                       *)
(***************************************************************************)
\* midnight of the reference date
Midnight(log_date) == [secs |-> log_date * SecondsPerDay, aware |-> FALSE]

\* some record of the list stems from the line and is stamped midnight of log_date
KeptAtMidnight(records, line, log_date) ==
    \E k \in DOMAIN records :
        /\ records[k].message = line.message
        /\ records[k].timestamp = Midnight(log_date)

\* C11: a line that matches the syslog pattern but whose date cannot be built is not
\* discarded by either parser: once a parser has read the blob there is an entry for
\* the line stamped midnight of the blob's date, and the failover / reboot Event
\* derived from it carries that timestamp.
C11_UndatableLineKept ==
    \A b \in DOMAIN system_container :
        \A i \in DOMAIN system_container[b].content :
            LET line == system_container[b].content[i]
                log_date == system_container[b].blob_date
            IN  (line.fmt = "syslog" /\ ~ line.stamp.valid) =>
                    /\ parsed_entries # <<>> =>
                          KeptAtMidnight(parsed_entries, line, log_date)
                    /\ lines_read > 0 =>
                          /\ KeptAtMidnight(system_logs, line, log_date)
                          /\ MatchesFailover(line) =>
                                KeptAtMidnight(failover_events, line, log_date)
                          /\ MatchesReboot(line) =>
                                KeptAtMidnight(reboot_events, line, log_date)

(***************************************************************************)
(* Claims about the position fields of a record.                           *)
(***************************************************************************)
\* the record carries the key with a value other than None
Present(entry, key) == key \in DOMAIN entry /\ entry[key] # None

\* C12: in every materialised performance record latitude and longitude are both
\* present or both absent (None, or the key missing).
C12_LatitudeLongitudeTogether ==
    \A i \in DOMAIN performance_data :
        Present(performance_data[i], "latitude")
            <=> Present(performance_data[i], "longitude")

(***************************************************************************)
(* Claims about optional columns.                                          *)
(***************************************************************************)
\* the column of each optional field
OptionalColumn ==
    [currently_obstructed |-> 8, snr |-> 9, alerts_thermal_throttle |-> 10,
     alerts_thermal_shutdown |-> 11, dishy_state |-> 13, mobility_class |-> 14,
     latitude |-> 18, longitude |-> 19, altitude_m |-> 20, speed_kmh |-> 21,
     heading_deg |-> 22, gps_source |-> 23, gps_satellites |-> 24,
     gps_accuracy_m |-> 25]

\* the documented default of each optional field
OptionalDefault ==
    [currently_obstructed |-> FALSE, snr |-> 0, alerts_thermal_throttle |-> FALSE,
     alerts_thermal_shutdown |-> FALSE, dishy_state |-> "", mobility_class |-> "",
     latitude |-> None, longitude |-> None, altitude_m |-> None, speed_kmh |-> None,
     heading_deg |-> None, gps_source |-> "none", gps_satellites |-> 0,
     gps_accuracy_m |-> None]

\* the column of the field is absent from the row, or blank
AbsentOrBlank(row, field) ==
    \/ Len(row) <= OptionalColumn[field]
    \/ At(row, OptionalColumn[field]).k = "blank"

\* the record gives every field whose column is absent or blank its default (a record
\* that lacks the key altogether is counted as defaulted)
DefaultsApplied(entry, row) ==
    \A field \in DOMAIN OptionalColumn :
        (AbsentOrBlank(row, field) /\ field \in DOMAIN entry) =>
            entry[field] = OptionalDefault[field]

\* C13: a row whose 8 mandatory fields are well-formed, and whose optional columns
\* are each absent, blank or well-formed, is materialised, and every absent or blank
\* optional column yields the documented default.
C13_OptionalColumnsDefaulted ==
    \A i \in DOMAIN csv_content :
        LET row == csv_content[i]
        IN  (Len(row) <= 26 /\ WellFormedRow(row)) =>
                \E j \in DOMAIN NewEntries :
                    /\ NewEntries[j].timestamp = FromIso(row[1])
                    /\ DefaultsApplied(NewEntries[j], row)

(***************************************************************************)
(* Input universe of the mobility specification: one performance blob of   *)
(* up to MaxSamples 26-column rows.  The speeds run through the bucket     *)
(* boundaries and their neighbours, the first `gap` rows carry no speed,   *)
(* every fourth row carries no position.                                   *)
(***************************************************************************)
SpeedLevels == <<0, 9, 10, 49, 50, 249, 250, 599, 600, 999, 1000, 1500>>

MobRow(i, off, gap) ==
    LET stamped == WithPart(GoodLine(26), 0, Iso(DayStart(LogDay) + 60 * i))
        placed == IF i % 4 = 0
                  THEN WithPart(WithPart(stamped, 18, Blank), 19, Blank)
                  ELSE WithPart(WithPart(stamped, 18, Num((off - 4) * 10 + (i % 3))),
                                19, Num(18 + ((i * i) % 5)))
    IN  WithPart(placed, 21,
                 IF i <= gap THEN Blank
                 ELSE Num(SpeedLevels[((i + off) % Len(SpeedLevels)) + 1]))

MobBlobs ==
    {Blob(LogDay, [i \in 1..n |-> MobRow(i, off, gap)]) :
        n \in 0..MaxSamples, off \in 0..(Len(SpeedLevels) - 1), gap \in 0..2}

InitMob ==
    /\ InitAnalyzer
    /\ system_container = <<>>
    /\ performance_container \in {<<b>> : b \in MobBlobs}

NextMob ==
    \/ download_data(LogDay)
    \/ analyze_performance_trends

SpecMob == InitMob /\ [][NextMob]_vars

(***************************************************************************)
(* Claims about the mobility and position analyses.                        *)
(***************************************************************************)
\* analyze_performance_trends has run the mobility analysis on records carrying a speed
MobilityAnalysed ==
    /\ "mobility_analysis" \in DOMAIN performance_analysis
    /\ "speed_correlations" \in DOMAIN performance_analysis.mobility_analysis

\* the speeds of the records that carry one
SpeedsIngested ==
    LET with == SelectSeq(performance_data, LAMBDA p : Present(p, "speed_kmh"))
    IN  [i \in DOMAIN with |-> with[i].speed_kmh[1]]

\* C14: when the mobility analysis has run, the three speed correlation coefficients
\* are in its result exactly when at least 10 records carry a speed; with fewer the
\* mapping is empty.
C14_CorrelationsFromTenSamples ==
    MobilityAnalysed =>
        LET found == performance_analysis.mobility_analysis.speed_correlations
        IN  IF Len(SpeedsIngested) >= 10
            THEN found = {"speed_vs_latency", "speed_vs_packet_loss", "speed_vs_throughput"}
            ELSE found = {}

\* the buckets in ascending order, each with its lower bound in 1/10 km/h
Buckets ==
    <<[state |-> "stationary", from |-> -1000000],
      [state |-> "walking", from |-> 10],
      [state |-> "cycling", from |-> 50],
      [state |-> "driving_urban", from |-> 250],
      [state |-> "driving_highway", from |-> 600],
      [state |-> "high_speed", from |-> 1000]>>

\* the speeds of bucket k: from its lower bound up to, not including, the next one
InBucket(speed, k) ==
    /\ Buckets[k].from <= speed
    /\ k < Len(Buckets) => speed < Buckets[k + 1].from

\* C15: the mobility distribution counts every speed in exactly one bucket, the one
\* whose half-open range [lower, next lower) holds it: a speed of exactly 1, 5, 25,
\* 60 or 100 km/h is counted in the bucket above the boundary.
C15_HalfOpenBuckets ==
    MobilityAnalysed =>
        LET counted == performance_analysis.mobility_analysis.mobility_distribution
        IN  /\ DOMAIN counted \subseteq {Buckets[k].state : k \in DOMAIN Buckets}
            /\ \A k \in DOMAIN Buckets :
                  LET n == Cardinality({i \in DOMAIN SpeedsIngested :
                                           InBucket(SpeedsIngested[i], k)})
                  IN  IF n = 0 THEN Buckets[k].state \notin DOMAIN counted
                      ELSE /\ Buckets[k].state \in DOMAIN counted
                           /\ counted[Buckets[k].state] = n

\* speeds of exactly 1, 5, 25, 60 and 100 km/h have been classified
C15_Witness ==
    /\ MobilityAnalysed
    /\ \A boundary \in {10, 50, 250, 600, 1000} :
          \E i \in DOMAIN SpeedsIngested : SpeedsIngested[i] = boundary
    /\ DOMAIN performance_analysis.mobility_analysis.mobility_distribution
          = {Buckets[k].state : k \in DOMAIN Buckets}

\* the positions of the records that carry one
PositionsIngested ==
    LET with == SelectSeq(performance_data,
                          LAMBDA p : Present(p, "latitude") /\ Present(p, "longitude"))
    IN  [i \in DOMAIN with |-> [lat |-> with[i].latitude[1], lon |-> with[i].longitude[1]]]

Span(S) == (CHOOSE x \in S : \A y \in S : y <= x) - (CHOOSE x \in S : \A y \in S : x <= y)

\* analyze_performance_trends has run the position analysis on records carrying one
PositionAnalysed ==
    /\ "gps_analysis" \in DOMAIN performance_analysis
    /\ "coverage_area_km2" \in DOMAIN performance_analysis.gps_analysis

\* C20: the coverage area is 0 with fewer than 3 positions; with 3 or more it is
\* (latitude span x 111) x (longitude span x 111 x |mean latitude| / 90), rounded to
\* 1/100 km2, and it is never negative.
C20_CoverageArea ==
    PositionAnalysed =>
        LET area == performance_analysis.gps_analysis.coverage_area_km2
            n == Len(PositionsIngested)
            lats == {PositionsIngested[i].lat : i \in DOMAIN PositionsIngested}
            lons == {PositionsIngested[i].lon : i \in DOMAIN PositionsIngested}
            total == SumOf([i \in DOMAIN PositionsIngested |-> PositionsIngested[i].lat])
        IN  /\ area >= 0
            /\ n < 3 => area = 0
            /\ n >= 3 =>
                  area = Round2((Span(lats) * 111) * (Span(lons) * 111) * Abs(total), n * 90)

\* three or more positions south of the equator, spread in both directions
C20_Witness ==
    /\ PositionAnalysed
    /\ Len(PositionsIngested) >= 3
    /\ \A i \in DOMAIN PositionsIngested : PositionsIngested[i].lat < 0
    /\ performance_analysis.gps_analysis.coverage_area_km2 > 0

(***************************************************************************)
(* Input universe of the statistics specification: one performance blob of *)
(* up to MaxStatRows 8-column rows whose latencies are step, 2 step, ...   *)
(* (in 1/10 ms) in ascending, descending or rotated order.                 *)
(***************************************************************************)
\* the rank whose value row i of n carries
RankAt(i, n, order) ==
    IF order = "ascending" THEN i
    ELSE IF order = "descending" THEN n + 1 - i
    ELSE ((i + (n \div 2)) % n) + 1

StatRow(i, n, step, order) ==
    LET rank == RankAt(i, n, order)
    IN  <<Iso(DayStart(LogDay) + 60 * i), Num(1), Num(20000000 - 100000 * rank), Num(1),
          Num(rank % 40), Num(step * rank), Num(1), Num(0)>>

StatBlobs ==
    {Blob(LogDay, [i \in 1..n |-> StatRow(i, n, step, order)]) :
        n \in 0..MaxStatRows, step \in {1, 10},
        order \in {"ascending", "descending", "rotated"}}

InitStats ==
    /\ InitAnalyzer
    /\ system_container = <<>>
    /\ performance_container \in {<<b>> : b \in StatBlobs}

NextStats ==
    \/ download_data(LogDay)
    \/ generate_threshold_recommendations

SpecStats == InitStats /\ [][NextStats]_vars

(***************************************************************************)
(* Claims about the threshold recommendations.                             *)
(***************************************************************************)
\* the nearest-rank element: the value with floor(n x pct / 100) values below or equal
\* to it still to its left in ascending order, whatever the order of the list
NearestRank(values, pct) ==
    LET k == (Len(values) * pct) \div 100
    IN  CHOOSE x \in {values[i] : i \in DOMAIN values} :
            /\ Cardinality({i \in DOMAIN values : values[i] < x}) <= k
            /\ Cardinality({i \in DOMAIN values : values[i] <= x}) > k

Recommended == "recommended_thresholds" \in DOMAIN recommendations

\* C16: whenever the 95th-percentile latency is strictly below the 99th-percentile
\* latency, the recommended latency_warning_ms is strictly below latency_critical_ms.
C16_WarningBelowCritical ==
    Recommended =>
        LET latencies == Column(performance_data, "ping_latency_ms")
        IN  NearestRank(latencies, 95) < NearestRank(latencies, 99) =>
                recommendations.recommended_thresholds.latency_warning_ms
                    < recommendations.recommended_thresholds.latency_critical_ms

\* C17: the recommendations are computed from the nearest-rank percentiles, the
\* element at zero-based index floor(n x p) of the ascending values for p = 0.95,
\* 0.99 and 0.05, whatever the order of performance_data.
C17_NearestRankPercentiles ==
    Recommended =>
        LET latencies == Column(performance_data, "ping_latency_ms")
            losses == Column(performance_data, "ping_drop_rate")
            throughputs == Column(performance_data, "downlink_throughput_bps")
            found == recommendations.recommended_thresholds
        IN  /\ found.latency_warning_ms = (NearestRank(latencies, 95) * 11) \div 100
            /\ found.latency_critical_ms = (NearestRank(latencies, 99) * 11) \div 100
            /\ found.packet_loss_warning_pct = NearestRank(losses, 95) * 12
            /\ found.min_throughput_mbps = (NearestRank(throughputs, 5) + 62500) \div 125000

\* latencies 1..100 ms, ingested in descending order: the 95th percentile is 96 ms,
\* so the warning is int(96 x 1.1) = 105 and the critical int(100 x 1.1) = 110
C17_Witness ==
    /\ Recommended
    /\ Len(performance_data) = 100
    /\ \A i \in 1..100 : performance_data[i].ping_latency_ms = 10 * (101 - i)
    /\ NearestRank(Column(performance_data, "ping_latency_ms"), 95) = 960
    /\ recommendations.recommended_thresholds.latency_warning_ms = 105
    /\ recommendations.recommended_thresholds.latency_critical_ms = 110

\* C26: for every non-empty list of performance records the indices int(n x 0.05),
\* int(n x 0.95) and int(n x 0.99) lie in 0..n-1, so that the lookup in the sorted
\* list never leaves it (n = 1 included), and the index of the 95th percentile is
\* never greater than that of the 99th.
C26_IndicesInRange ==
    performance_data # <<>> =>
        LET n == Len(performance_data)
        IN  /\ \A pct \in {5, 95, 99} :
                  /\ 0 <= PercentileIndex(n, pct)
                  /\ PercentileIndex(n, pct) <= n - 1
            /\ PercentileIndex(n, 95) <= PercentileIndex(n, 99)
            /\ recommendations # NotRun => Recommended

\* the recommendations were computed from a single record, and from a list long
\* enough for the three indices to differ
C26_Witness ==
    /\ Recommended
    /\ \/ Len(performance_data) = 1
       \/ /\ Len(performance_data) = MaxStatRows
          /\ PercentileIndex(MaxStatRows, 5) < PercentileIndex(MaxStatRows, 95)
          /\ PercentileIndex(MaxStatRows, 95) < PercentileIndex(MaxStatRows, 99)

\* C27: for every non-empty list of performance records with non-negative
\* latencies the recommended latency_warning_ms is at most latency_critical_ms,
\* whatever the distribution and the order of the list.
C27_WarningAtMostCritical ==
    (Recommended /\ \A i \in DOMAIN performance_data :
                       performance_data[i].ping_latency_ms >= 0) =>
        recommendations.recommended_thresholds.latency_warning_ms
            <= recommendations.recommended_thresholds.latency_critical_ms

\* the two thresholds coincide although the 95th and the 99th percentile differ
C27_Witness ==
    /\ Recommended
    /\ NearestRank(Column(performance_data, "ping_latency_ms"), 95)
           < NearestRank(Column(performance_data, "ping_latency_ms"), 99)
    /\ recommendations.recommended_thresholds.latency_warning_ms
           = recommendations.recommended_thresholds.latency_critical_ms
    /\ recommendations.recommended_thresholds.latency_critical_ms > 0

(***************************************************************************)
(* Claims about a run that ingested nothing.                               *)
(***************************************************************************)
NothingIngested ==
    /\ performance_data = <<>>
    /\ failover_events = <<>>
    /\ reboot_events = <<>>

\* generate_report has been called
ReportCalled == pc \in {"report", "failed", "write_failed"}

\* C18: when no performance record and no event was ingested, generate_report gets
\* the explicit no-data result of every analysis function (failover_count 0, "No
\* performance data found", zero correlations, "Insufficient data for
\* recommendations", period start and end None) and no step of it raises, short of
\* an output file that cannot be opened.
C18_EmptyRunReports ==
    (ReportCalled /\ NothingIngested) =>
        /\ failover_analysis = [failover_count |-> 0, message |-> "No failover events found"]
        /\ performance_analysis = [message |-> "No performance data found"]
        /\ event_correlation = [correlations_found |-> 0, events |-> <<>>]
        /\ recommendations = [message |-> "Insufficient data for recommendations"]
        /\ analysis_period = [start |-> None, end |-> None]
        /\ pc # "failed"

\* a run over containers that list only blobs outside the date range: nothing is
\* ingested and the report is written
C18_Witness ==
    /\ pc = "report"
    /\ NothingIngested
    /\ system_container # <<>>
    /\ performance_container # <<>>
    /\ failover_analysis.failover_count = 0

(***************************************************************************)
(* Input universe of the retrieval-error specification: listings in which  *)
(* a blob's download can fail or the listing itself can fail part-way.     *)
(***************************************************************************)
\* a listed blob whose download raises
FaultyBlob(day) == [blob_date |-> day, content |-> <<>>, fault |-> "download"]

\* the position at which iterating list_blobs() raises; it names no blob
ListingError == [blob_date |-> 0, content |-> <<>>, fault |-> "listing"]

FaultSystemBlobs ==
    {Blob(day, <<SyslogLine(DayStart(day) + 900, Mwan3, <<>>,
                            <<"f", "a", "i", "l", "o", "v", "e", "r">>)>>) :
        day \in {LogDay - 1, LogDay}}
    \cup {FaultyBlob(LogDay), FaultyBlob(LogDay - DaysBack - 1), ListingError}

FaultPerformanceBlobs ==
    {Blob(day, <<SampleLine(Iso(DayStart(day) + 600))>>) : day \in {LogDay - 1, LogDay}}
    \cup {FaultyBlob(LogDay - 1), ListingError}

InitFault ==
    /\ InitAnalyzer
    /\ system_container \in Listings(FaultSystemBlobs)
    /\ performance_container \in Listings(FaultPerformanceBlobs)

NextFault ==
    \/ \E writable \in BOOLEAN : generate_report(writable)
    \/ download_data(LogDay)

SpecFault == InitFault /\ [][NextFault]_vars

(***************************************************************************)
(* Claims about retrieval errors.                                          *)
(***************************************************************************)
\* listing the container fails at position i, or the blob at position i is one the
\* run downloads and its download fails
FailsAt(listing, i) ==
    \/ listing[i].fault = "listing"
    \/ /\ listing[i].fault = "download"
       /\ LogDay - DaysBack <= listing[i].blob_date
       /\ listing[i].blob_date <= LogDay

Fails(listing) == \E i \in DOMAIN listing : FailsAt(listing, i)

\* the blobs listed before the first failure
BeforeFailure(listing) ==
    IF Fails(listing)
    THEN SubSeq(listing, 1, (CHOOSE i \in DOMAIN listing :
                                /\ FailsAt(listing, i)
                                /\ \A j \in 1..(i - 1) : ~ FailsAt(listing, j)) - 1)
    ELSE listing

\* the entries of the system blobs of a fault-free listing
LogsOf(listing) ==
    DownloadSystem(listing, LogDay, [logs |-> <<>>, failovers |-> <<>>, reboots |-> <<>>]).logs

\* the records of the performance blobs of a fault-free listing
RecordsOf(listing) ==
    DownloadPerformance(listing, LogDay, [pd |-> <<>>, tv |-> <<>>, content |-> <<>>,
                                          pmark |-> 0, vmark |-> 0]).pd

\* C19: when listing a container or downloading a blob raises, download_data ends in
\* failure with only the blobs before the failure processed (none of the performance
\* container when the system-log container failed), generate_report is never
\* called, and so no report is written from a partially downloaded data set.
C19_RetrievalErrorAbortsRun ==
    (Fails(system_container) \/ Fails(performance_container)) =>
        /\ pc \in {"ingest", "download_failed"}
        /\ event_correlation = NotRun
        /\ recommendations = NotRun
        /\ failover_analysis = NotRun
        /\ performance_analysis = NotRun
        /\ pc = "download_failed" =>
              /\ system_logs = LogsOf(BeforeFailure(system_container))
              /\ performance_data =
                     IF Fails(system_container) THEN <<>>
                     ELSE RecordsOf(BeforeFailure(performance_container))

\* the system-log container failed after one blob was ingested: the run has ended,
\* the performance container was not read
C19_Witness ==
    /\ pc = "download_failed"
    /\ Fails(system_container)
    /\ system_logs # <<>>
    /\ performance_container # <<>>
    /\ ~ Fails(performance_container)
    /\ \E i \in DOMAIN performance_container :
          InDateRange(performance_container[i].blob_date, LogDay)
    /\ performance_data = <<>>

(***************************************************************************)
(* Input universe of the log-level specification: messages carrying none,  *)
(* one or several level markers, as written, in upper and in lower case.   *)
(***************************************************************************)
LevelMessages ==
    {<<"e", "r", "r", "o", "r">>,
     <<"e", "r", "r">>,
     <<"E", "r", "r", "o", "r", ":", " ", "l", "i", "n", "k", " ", "l", "o", "s", "t">>,
     <<"s", "t", "d", "e", "r", "r", " ", "c", "l", "o", "s", "e", "d">>,
     <<"i", "n", "t", "e", "r", "r", "u", "p", "t">>,
     <<"w", "a", "r", "n">>,
     <<"W", "a", "r", "n", "i", "n", "g", ":", " ", "l", "o", "w", " ", "s", "i", "g", "n", "a", "l">>,
     <<"w", "a", "r", "n", "i", "n", "g">>,
     <<"i", "n", "f", "o">>,
     <<"I", "n", "f", "o", "r", "m", "a", "t", "i", "o", "n">>,
     <<"i", "n", "f", "o", "r", "m", "a", "l", " ", "n", "o", "t", "e">>,
     <<"d", "e", "b", "u", "g">>,
     <<"D", "e", "b", "u", "g", " ", "t", "r", "a", "c", "e">>,
     <<"h", "e", "l", "l", "o">>,
     <<"k", "e", "r", "n", "e", "l", " ", "r", "e", "a", "d", "y">>,
     <<"E", "R", "R", "O", "R", " ", "i", "n", " ", "D", "E", "B", "U", "G", " ", "m", "o", "d", "e">>,
     <<"d", "e", "b", "u", "g", ":", " ", "e", "r", "r", "o", "r", " ", "s", "e", "e", "n">>,
     <<"d", "e", "b", "u", "g", " ", "i", "n", "f", "o">>,
     <<"i", "n", "f", "o", ":", " ", "w", "a", "r", "n", "i", "n", "g", " ", "i", "s", "s", "u", "e", "d">>,
     <<"w", "a", "r", "n", ":", " ", "e", "r", "r">>,
     <<"d", "e", "b", "u", "g", " ", "w", "a", "r", "n">>,
     <<"i", "n", " ", "f", "o">>,
     <<"e", " ", "r", " ", "r">>,
     <<"f", "a", "i", "l", "o", "v", "e", "r">>,
     <<"w", "a", "n", " ", "u", "p">>,
     <<"d", "e", " ", "b", "u", "g">>}

LevelLines ==
    {SyslogLine(LogDay * SecondsPerDay + 37845, Mwan3, <<>>, text) :
        text \in LevelMessages \cup {Upper(m) : m \in LevelMessages}
                 \cup {Lower(m) : m \in LevelMessages}}

InitLevel ==
    /\ InitAnalyzer
    /\ system_container \in {<<Blob(LogDay, c)>> : c \in SeqsUpTo(LevelLines, MaxBlobLines)}
    /\ performance_container = <<>>

NextLevel ==
    \E i \in DOMAIN system_container :
        LogParser_parse_system_logs(system_container[i].content,
                                    system_container[i].blob_date)

SpecLevel == InitLevel /\ [][NextLevel]_vars

(***************************************************************************)
(* Claims about the log level.                                             *)
(***************************************************************************)
\* the levels in their precedence, each with its markers
LevelPrecedence == <<"ERROR", "WARNING", "INFO", "DEBUG">>

LevelMarkers(level) ==
    CASE level = "ERROR" -> {<<"E", "R", "R", "O", "R">>, <<"E", "R", "R">>}
      [] level = "WARNING" -> {<<"W", "A", "R", "N">>, <<"W", "A", "R", "N", "I", "N", "G">>}
      [] level = "INFO" -> {<<"I", "N", "F", "O">>,
                            <<"I", "N", "F", "O", "R", "M", "A", "T", "I", "O", "N">>}
      [] level = "DEBUG" -> {<<"D", "E", "B", "U", "G">>}

\* the marker occurs in the message at some position, letter case disregarded
Occurs(marker, message) ==
    \E at \in 0..(Len(message) - Len(marker)) :
        \A k \in 1..Len(marker) : LowerChar(message[at + k]) = LowerChar(marker[k])

Marked(level, message) == \E marker \in LevelMarkers(level) : Occurs(marker, message)

\* the first level of the precedence that the message is marked with
FirstLevel(message) ==
    IF \E rank \in DOMAIN LevelPrecedence : Marked(LevelPrecedence[rank], message)
    THEN LevelPrecedence[CHOOSE rank \in DOMAIN LevelPrecedence :
                            /\ Marked(LevelPrecedence[rank], message)
                            /\ \A q \in 1..(rank - 1) : ~ Marked(LevelPrecedence[q], message)]
    ELSE "UNKNOWN"

\* C21: the log level of an entry is the first level, in the precedence ERROR,
\* WARNING, INFO, DEBUG, one of whose markers occurs in the message as a substring
\* whatever the letter case, and UNKNOWN exactly when no marker occurs; a message
\* with both an ERROR and a DEBUG marker is ERROR.
C21_FirstLevelWins ==
    \A i \in DOMAIN parsed_entries :
        /\ parsed_entries[i].log_level = FirstLevel(parsed_entries[i].message)
        /\ parsed_entries[i].log_level = "UNKNOWN" <=>
               \A level \in {"ERROR", "WARNING", "INFO", "DEBUG"} :
                   ~ Marked(level, parsed_entries[i].message)
        /\ (Marked("ERROR", parsed_entries[i].message)
            /\ Marked("DEBUG", parsed_entries[i].message)) =>
               parsed_entries[i].log_level = "ERROR"

\* an entry whose message names DEBUG before ERROR was given the level ERROR
C21_Witness ==
    \E i \in DOMAIN parsed_entries :
        /\ parsed_entries[i].message
               = <<"d", "e", "b", "u", "g", ":", " ", "e", "r", "r", "o", "r", " ", "s", "e", "e", "n">>
        /\ parsed_entries[i].log_level = "ERROR"

(***************************************************************************)
(* Claims about distances and movement.                                    *)
(***************************************************************************)
\* analyze_performance_trends has run the movement analysis on two or more positions
MovementAnalysed ==
    /\ PositionAnalysed
    /\ "distances" \in DOMAIN performance_analysis.gps_analysis.movement_analysis

DistanceBetween(A, B) == _calculate_distance(A.lat, A.lon, B.lat, B.lon)

\* C22: the distance is symmetric, distance(A, B) = distance(B, A) for every pair of
\* positions, and distance(A, A) = 0 for every position: each step distance the
\* movement analysis took equals the distance of the reverse step.
C22_DistanceSymmetric ==
    PositionAnalysed =>
        /\ \A i, j \in DOMAIN PositionsIngested :
              i < j => DistanceBetween(PositionsIngested[i], PositionsIngested[j])
                           = DistanceBetween(PositionsIngested[j], PositionsIngested[i])
        /\ \A i \in DOMAIN PositionsIngested :
              DistanceBetween(PositionsIngested[i], PositionsIngested[i]) = 0
        /\ MovementAnalysed =>
              \A k \in DOMAIN performance_analysis.gps_analysis.movement_analysis.distances :
                  performance_analysis.gps_analysis.movement_analysis.distances[k]
                      = DistanceBetween(PositionsIngested[k + 1], PositionsIngested[k])

\* a step between two positions of different latitude and longitude, far from the
\* equator, was measured
C22_Witness ==
    /\ MovementAnalysed
    /\ \E k \in DOMAIN performance_analysis.gps_analysis.movement_analysis.distances :
          /\ PositionsIngested[k].lat # PositionsIngested[k + 1].lat
          /\ PositionsIngested[k].lon # PositionsIngested[k + 1].lon
          /\ PositionsIngested[k].lat >= 60
          /\ performance_analysis.gps_analysis.movement_analysis.distances[k] > 0

\* the position analysis ran, or found no position to run on
GpsAnalysed == "gps_analysis" \in DOMAIN performance_analysis

\* the distance of each step between positions adjacent in the list, in metres
Steps ==
    [k \in 1..(Len(PositionsIngested) - 1) |->
        DistanceBetween(PositionsIngested[k], PositionsIngested[k + 1])]

\* C23: with n >= 2 positions the movement analysis takes exactly n - 1 step
\* distances, one per pair of positions adjacent in the list, and reports their sum
\* as the total, the sum divided by n - 1 as the average and the largest step as the
\* maximum; with fewer than 2 positions it reports its insufficient-data result (no
\* position at all: the no-GPS-data result) and takes no distance.
C23_AdjacentSteps ==
    GpsAnalysed =>
        LET gps == performance_analysis.gps_analysis
            n == Len(PositionsIngested)
        IN  /\ n = 0 => gps = [message |-> "No GPS data available"]
            /\ n = 1 => gps.movement_analysis
                            = [message |-> "Insufficient data for movement analysis"]
            /\ n >= 2 =>
                  /\ gps.movement_analysis.distances = Steps
                  /\ Len(gps.movement_analysis.distances) = n - 1
                  /\ gps.movement_analysis.total_distance_km = Round2(SumOf(Steps), 1000)
                  /\ gps.movement_analysis.avg_distance_per_measurement_m
                         = Round2(SumOf(Steps), n - 1)
                  /\ gps.movement_analysis.max_distance_between_points_m
                         = 100 * (CHOOSE d \in {Steps[k] : k \in DOMAIN Steps} :
                                     \A k \in DOMAIN Steps : Steps[k] <= d)

\* four or more positions were walked through in steps of different lengths
C23_Witness ==
    /\ MovementAnalysed
    /\ Len(PositionsIngested) >= 4
    /\ Cardinality({Steps[k] : k \in DOMAIN Steps}) >= 3
    /\ performance_analysis.gps_analysis.movement_analysis.total_distance_km > 0

(***************************************************************************)
(* Input universe of the location specification: one performance blob of   *)
(* up to MaxSamples 26-column rows spread over 1 to 4 positions, with      *)
(* latencies and throughputs that differ from row to row; every fifth row  *)
(* carries no position.                                                    *)
(***************************************************************************)
LocRow(i, places, mix) ==
    LET stamped == WithPart(GoodLine(26), 0, Iso(DayStart(LogDay) + 60 * i))
        measured == WithPart(WithPart(stamped, 5, Num(200 + ((i * (mix + 3)) % 7) * 15)),
                             2, Num(1000000 + ((i * (mix + 2)) % 5) * 250000))
    IN  IF i % 5 = 0
        THEN WithPart(WithPart(measured, 18, Blank), 19, Blank)
        ELSE WithPart(WithPart(measured, 18, Num(59 + ((i % places) \div 2))),
                      19, Num(18 - ((i % places) % 2)))

LocBlobs ==
    {Blob(LogDay, [i \in 1..n |-> LocRow(i, places, mix)]) :
        n \in 0..MaxSamples, places \in 1..4, mix \in 0..3}

InitLoc ==
    /\ InitAnalyzer
    /\ system_container = <<>>
    /\ performance_container \in {<<b>> : b \in LocBlobs}

NextLoc ==
    \/ analyze_performance_trends
    \/ download_data(LogDay)

SpecLoc == InitLoc /\ [][NextLoc]_vars

(***************************************************************************)
(* Claims about the location-binned analysis.                              *)
(***************************************************************************)
\* analyze_performance_trends has run the location analysis on records carrying a position
LocationAnalysed ==
    /\ GpsAnalysed
    /\ "location_performance" \in DOMAIN performance_analysis.gps_analysis

\* the records carrying a position
Located ==
    SelectSeq(performance_data, LAMBDA p : Present(p, "latitude") /\ Present(p, "longitude"))

\* the bin of a record: its position to the nearest 1/1000 degree, in 1/1000 degree
BinOf(p) ==
    <<CHOOSE m \in (p.latitude[1] * 1000 - 1)..(p.latitude[1] * 1000 + 1) :
          2 * Abs(m - p.latitude[1] * 1000) < 1,
      CHOOSE m \in (p.longitude[1] * 1000 - 1)..(p.longitude[1] * 1000 + 1) :
          2 * Abs(m - p.longitude[1] * 1000) < 1>>

Bins == {BinOf(Located[i]) : i \in DOMAIN Located}

InBin(b) == SelectSeq(Located, LAMBDA p : BinOf(p) = b)

\* the mean of a column over a bin, to 2 decimals: latency in ms, downlink in bps
MeanLatency(b) == Mean2(SumOf(Column(InBin(b), "ping_latency_ms")), 10 * Len(InBin(b)))
MeanDownlink(b) == Mean2(SumOf(Column(InBin(b), "downlink_throughput_bps")), Len(InBin(b)))

BinAt(location) == <<location.lat, location.lon>>

Correlated == event_correlation # NotRun

\* C25: correlate_events_and_performance completes without raising for every
\* combination of events and performance records the two parsers can produce,
\* records stamped with a Z-suffixed (offset-aware) time next to events stamped from
\* syslog lines (naive) included.
C25_CorrelationCompletes ==
    Correlated =>
        /\ "raised" \notin DOMAIN event_correlation
        /\ "correlations_found" \in DOMAIN event_correlation

(***************************************************************************)
(* Input universe of the accumulator specification: performance files and  *)
(* system-log files parsed in any order, then the analyses in any order.   *)
(***************************************************************************)
FrameRows ==
    {SampleLine(Iso(4000)), MetricLine(6001, 51, 9999999, 21),
     MetricLine(7000, 1, 50000000, 1)}

FrameLogLines ==
    {SyslogLine(4000, Mwan3, <<>>, <<"f", "a", "i", "l", "o", "v", "e", "r">>),
     SyslogLine(4100, Mwan3, <<>>, <<"r", "e", "b", "o", "o", "t">>)}

NextFrame ==
    \/ \E content \in SeqsUpTo(FrameRows, MaxRows) : _parse_performance_data(content)
    \/ \E content \in SeqsUpTo(FrameLogLines, MaxLogLines) :
          _parse_system_logs(content, LogDay)
    \/ analyze_failover_patterns
    \/ correlate_events_and_performance
    \/ generate_threshold_recommendations

SpecFrame == Init /\ [][NextFrame]_vars

(***************************************************************************)
(* Claims about the run-wide accumulators.                                 *)
(***************************************************************************)
\* every entry of before is still in after, at its place and as it was
Extends(after, before) ==
    /\ Len(after) >= Len(before)
    /\ \A i \in DOMAIN before : after[i] = before[i]

\* C28: the accumulators are append-only and each parsing stage touches only its
\* own: a step that parses a system-log file leaves performance_data and
\* threshold_violations unchanged, a step that parses a performance file leaves
\* system_logs, failover_events and reboot_events unchanged, no step removes,
\* reorders or rewrites an entry accumulated before, and no analysis (failover
\* patterns, correlation, threshold recommendations) changes any of the lists.
C28_AppendOnlyAccumulators ==
    [][/\ Extends(system_logs', system_logs)
       /\ Extends(failover_events', failover_events)
       /\ Extends(reboot_events', reboot_events)
       /\ Extends(performance_data', performance_data)
       /\ Extends(threshold_violations', threshold_violations)
       /\ lines_read' # lines_read =>
             UNCHANGED <<performance_data, threshold_violations>>
       /\ rows_read' # rows_read =>
             UNCHANGED <<system_logs, failover_events, reboot_events>>
       /\ results' # results =>
             UNCHANGED <<system_logs, failover_events, reboot_events, performance_data,
                         threshold_violations>>]_vars

\* two performance files and a system-log file were parsed, each list holds entries,
\* the second performance file added a violation to one kept from the first, and the
\* three analyses ran
C28_Witness ==
    /\ perf_mark > 0
    /\ viol_mark > 0
    /\ Len(threshold_violations) > viol_mark
    /\ system_logs # <<>>
    /\ failover_events # <<>>
    /\ reboot_events # <<>>
    /\ failover_analysis # NotRun
    /\ event_correlation # NotRun
    /\ recommendations # NotRun

(***************************************************************************)
(* Input universe of the modular-pipeline specification: the listings of   *)
(* the run specification, with and without a failing blob.                 *)
(***************************************************************************)
\* run_analysis(days: int = 7)
DaysAnalysed == 7

InitModular ==
    /\ InitAnalyzer
    /\ system_container \in Listings(SystemBlobs \cup {FaultyBlob(LogDay)})
    /\ performance_container \in Listings(PerformanceBlobs)

NextModular == run_analysis(LogDay, DaysAnalysed)

SpecModular == InitModular /\ [][NextModular]_vars

(***************************************************************************)
(* Claims about the modular pipeline.                                      *)
(***************************************************************************)
\* a listed blob that the run downloads and that holds a line
HoldsData(listing) ==
    \E i \in DOMAIN listing :
        /\ listing[i].fault = "none"
        /\ LogDay - DaysAnalysed <= listing[i].blob_date
        /\ listing[i].blob_date <= LogDay
        /\ listing[i].content # <<>>

\* run_analysis returned
Returned == run_result # NotRun /\ "raised" \notin DOMAIN run_result

\* C29: in the modular pipeline, when storage holds an in-range blob with a
\* well-formed line, the download parses it into the downloader's system_logs or
\* performance_data, so that run_analysis passes its no-data check and returns a
\* non-empty result whose data_summary counts the parsed entries.
C29_ModularRunSeesData ==
    (Returned /\ (HoldsData(system_container) \/ HoldsData(performance_container))) =>
        /\ downloader_system_logs # <<>> \/ downloader_performance_data # <<>>
        /\ run_result # EmptyDict
        /\ "data_summary" \in DOMAIN run_result
        /\ run_result.data_summary.log_entries + run_result.data_summary.performance_entries
               >= 1

(***************************************************************************)
(* Input universe of the failover-pattern specification: system-log files  *)
(* whose failover lines fall on two days and in two hours of the day, then  *)
(* analyze_failover_patterns.                                              *)
(***************************************************************************)
\* the seconds into the year of day d, hh:mm
SecsAt(d, hh, mm) == (d * SecondsPerDay) + (hh * 3600) + (mm * 60)

PatternLines ==
    {SyslogLine(SecsAt(LogDay - 1, 1, 5), Mwan3, <<>>, <<"f", "a", "i", "l", "o", "v", "e", "r">>),
     SyslogLine(SecsAt(LogDay - 1, 23, 59), Mwan3, <<>>, <<"f", "a", "i", "l", "o", "v", "e", "r">>),
     SyslogLine(SecsAt(LogDay, 1, 0), Mwan3, <<>>, <<"f", "a", "i", "l", "o", "v", "e", "r">>),
     SyslogLine(SecsAt(LogDay, 0, 0), Mwan3, <<>>, <<"f", "a", "i", "l", "o", "v", "e", "r">>),
     SyslogLine(SecsAt(LogDay, 1, 30), Mwan3, <<>>, <<"r", "e", "b", "o", "o", "t">>)}

NextPatterns ==
    \/ \E content \in SeqsUpTo(PatternLines, MaxLogLines) :
          _parse_system_logs(content, LogDay)
    \/ analyze_failover_patterns

SpecPatterns == Init /\ [][NextPatterns]_vars

(***************************************************************************)
(* Claims about analyze_failover_patterns.                                 *)
(***************************************************************************)
\* analyze_failover_patterns ran on a non-empty list of failover events
PatternsAnalysed == failover_analysis # NotRun /\ failover_events # <<>>

RECURSIVE SumOverKeys(_, _)
\* the sum of the values of f at the keys
SumOverKeys(f, keys) ==
    IF keys = {} THEN 0
    ELSE LET k == CHOOSE x \in keys : TRUE
         IN  f[k] + SumOverKeys(f, keys \ {k})

\* the events that fall on date d
EventsOn(d) ==
    {i \in DOMAIN failover_events : failover_events[i].timestamp.secs \div 86400 = d}

\* the events that fall in hour h of a day
EventsIn(h) ==
    {i \in DOMAIN failover_events :
        (failover_events[i].timestamp.secs % 86400) \div 3600 = h}

\* C30: for a non-empty list of failover events the counts that
\* analyze_failover_patterns returns are consistent: the values of daily_distribution
\* sum to failover_count, days_with_failovers is the number of distinct event dates
\* and lies between 1 and failover_count, avg_failovers_per_day is failover_count
\* over days_with_failovers and at least 1, and peak_hour_count is the largest number
\* of events that share an hour of the day, between 1 and failover_count.
C30_ConsistentCounts ==
    PatternsAnalysed =>
        LET a == failover_analysis
            event_dates == {failover_events[i].timestamp.secs \div 86400 :
                               i \in DOMAIN failover_events}
        IN  /\ a.failover_count = Len(failover_events)
            /\ DOMAIN a.daily_distribution = event_dates
            /\ \A d \in event_dates : a.daily_distribution[d] = Cardinality(EventsOn(d))
            /\ SumOverKeys(a.daily_distribution, DOMAIN a.daily_distribution)
                   = a.failover_count
            /\ a.days_with_failovers = Cardinality(event_dates)
            /\ 1 <= a.days_with_failovers
            /\ a.days_with_failovers <= a.failover_count
            /\ a.avg_failovers_per_day = <<a.failover_count, a.days_with_failovers>>
            /\ a.avg_failovers_per_day[1] >= a.avg_failovers_per_day[2]
            /\ Cardinality(EventsIn(a.peak_hour)) = a.peak_hour_count
            /\ \A h \in 0..23 : Cardinality(EventsIn(h)) <= a.peak_hour_count
            /\ 1 <= a.peak_hour_count
            /\ a.peak_hour_count <= a.failover_count

\* three failovers on two days were analysed: two share a day, two share an hour of
\* the day, and the two pairs differ
C30_Witness ==
    /\ PatternsAnalysed
    /\ failover_analysis.failover_count = 3
    /\ failover_analysis.days_with_failovers = 2
    /\ failover_analysis.peak_hour_count = 2
    /\ \E d \in DOMAIN failover_analysis.daily_distribution :
          /\ failover_analysis.daily_distribution[d] = 2
          /\ \E i \in EventsOn(d) : i \notin EventsIn(failover_analysis.peak_hour)
====
